---- MODULE Spec2Model ----
(***************************************************************************)
(* The deterministic problem detector (src/detector.py) and the result     *)
(* validator (src/validator.py) of quickwins-seo, as a state machine:      *)
(* crawl data comes in, rules are called on it, detect_problems builds the *)
(* (quick_wins, critical_errors, warnings) triple and validate_results     *)
(* accepts or rejects a triple.  The discovery functions of src/app.py     *)
(* (normalize_domain, pick_sample_urls, fetch_sitemap_urls and the sitemap *)
(* resolution of basic_real_audit) are each called on their arguments,     *)
(* held in args, and leave their result in ret; the recursion of           *)
(* fetch_sitemap_urls and the loop of check_links_for_broken are also      *)
(* followed step by step, their frames held in stack.                      *)
(*                                                                         *)
(* Conventions for Python values:                                          *)
(*   - a str is a TLA+ string; the operators below work on its characters. *)
(*     The em dash of three texts of the detector is written "-" and the   *)
(*     bullet of the validator's message "*" (one character each, so the   *)
(*     lengths are kept): TLA+ strings are ASCII.                          *)
(*   - None is the string None, which no text of the model equals; a key   *)
(*     missing from a dict reads as None, as dict.get returns it.          *)
(*   - an optional int (status, h1_count, ...) is <<>> for None and <<n>>  *)
(*     for the int n.                                                      *)
(*   - effort_hours is held in tenths of an hour (2.0 is 20, 0.5 is 5);    *)
(*     priority_score is the exact fraction, compared by cross             *)
(*     multiplication: on these small integers float division orders the   *)
(*     quotients exactly as the fractions are ordered.                     *)
(***************************************************************************)
EXTENDS Integers, Sequences, FiniteSets, TLC

VARIABLES
    pages,                 \* detect_problems' argument: the page-signal records
    broken_link_examples,  \* detect_problems' argument: the broken-link records
    pc,                    \* "input" | "detected" | "validated" | "returned", the
                           \*   step of the audit flow, "fetching" | "checking"
    ret,                   \* what the last call of a rule or function returned
    all_problems,          \* detect_problems' local list of detected Problems
    quick_wins,            \* the triple returned by detect_problems and
    critical_errors,       \*   handed to validate_results
    warnings,
    outcome,               \* what validate_results did
    args,                  \* the arguments of a call of a function of src/app.py
    stack                  \* the frames of the calls under way of fetch_sitemap_urls,
                           \*   or the frame of check_links_for_broken

vars == <<pages, broken_link_examples, pc, ret, all_problems,
          quick_wins, critical_errors, warnings, outcome, args, stack>>

----------------------------------------------------------------------------
(* Python values and str methods *)

None == "None"

\* bool(s) of an optional str
Truthy(s) == s # None /\ s # ""

\* a or b
Or(a, b) == IF Truthy(a) THEN a ELSE b

\* dict.get(key, default)
Get(v, default) == IF v = None THEN default ELSE v

Range(s) == {s[i] : i \in 1..Len(s)}

SetMax(S) == CHOOSE m \in S : \A x \in S : x <= m

SetMin(S) == CHOOSE m \in S : \A x \in S : m <= x

Whitespace == {" ", "\t", "\n", "\r"}

\* s.strip(): Python drops the whitespace at both ends (a string that has
\* none at either end is returned as it is)
strip(s) ==
    IF s = "" THEN ""
    ELSE IF SubSeq(s, 1, 1) \notin Whitespace /\ SubSeq(s, Len(s), Len(s)) \notin Whitespace
    THEN s
    ELSE LET keep == {i \in 1..Len(s) : SubSeq(s, i, i) \notin Whitespace}
         IN  IF keep = {} THEN "" ELSE SubSeq(s, SetMin(keep), SetMax(keep))

\* s.rstrip(chars)
rstrip(s, chars) ==
    IF s = "" THEN ""
    ELSE IF SubSeq(s, Len(s), Len(s)) \notin chars THEN s
    ELSE LET keep == {i \in 1..Len(s) : SubSeq(s, i, i) \notin chars}
         IN  IF keep = {} THEN "" ELSE SubSeq(s, 1, SetMax(keep))

\* sub in s
In(sub, s) ==
    \E i \in 1..(Len(s) - Len(sub) + 1) : SubSeq(s, i, i + Len(sub) - 1) = sub

\* s.replace(old, new): every occurrence, leftmost first, none overlapping
RECURSIVE replace(_, _, _)
replace(s, old, new) ==
    LET at == {i \in 1..(Len(s) - Len(old) + 1) : SubSeq(s, i, i + Len(old) - 1) = old}
    IN  IF at = {} THEN s
        ELSE LET i == SetMin(at)
             IN  SubSeq(s, 1, i - 1) \o new
                     \o replace(SubSeq(s, i + Len(old), Len(s)), old, new)

\* s[:n]
Prefix(s, n) == SubSeq(s, 1, IF Len(s) < n THEN Len(s) ELSE n)

RECURSIVE Flatten(_)
Flatten(ss) == IF ss = <<>> THEN <<>> ELSE Head(ss) \o Flatten(Tail(ss))

----------------------------------------------------------------------------
(* Inputs: the records the callers hand to the detector and the validator *)

\* the default of detect_problems' thin_content_threshold
default_thin_content_threshold == 300

\* the most page records of one detect_problems call
MaxPages == 3

\* the most broken-link records of one detect_problems call
MaxBroken == 1

\* the most page records of one _detect_duplicate_titles call
MaxTitlePages == 3

\* the most page records of one _detect_missing_schema call
MaxSchemaPages == 10

\* the most quick wins, critical errors and warnings handed to validate_results
MaxQuickWins == 1

MaxCritical == 2

MaxWarnings == 1

SeqsUpTo(S, n) == UNION {[1..k -> S] : k \in 0..n}

\* a page-signal record as extract_page_signals builds it; the keys a record
\* lacks read as None
Page(url, final_url, status, error, title, meta, h1_count, word_count, jsonld_count) ==
    [url |-> url, final_url |-> final_url, status |-> status, error |-> error,
     title |-> title, meta |-> meta, h1_count |-> h1_count,
     word_count |-> word_count, jsonld_count |-> jsonld_count]

\* a title of 61 characters
LongTitle == "Sixty-one characters of title text make this title too long.."

\* a page with nothing filled in, at the address a
BarePage(a) ==
    Page(a, a, <<200>>, None, "", "", <<0>>, <<100>>, <<0>>)

\* a page with the trigger of every other content rule and an error status,
\* at the address a
LoudPage(a) ==
    Page(a, a, <<404>>, None, LongTitle, "Buy now", <<2>>, <<500>>, <<0>>)

\* a page in order, on which no rule fires
HealthyPage ==
    Page("https://a.com/shop", "https://a.com/shop", <<200>>, None, "Shop", "Welcome",
         <<1>>, <<500>>, <<1>>)

\* the record of a request that failed, at a host whose name starts with
\* www.www.
FailedPage ==
    Page("https://www.www.a.com/p", "https://www.www.a.com/p", <<>>, "request_failed",
         None, None, <<>>, <<>>, <<>>)

\* a record with nothing filled in and no URL
UrllessPage ==
    Page(None, None, <<200>>, None, "", "", <<0>>, <<100>>, <<0>>)

\* the record of a resource that is not HTML
NonHtmlPage ==
    Page("https://a.com/file.pdf", "https://a.com/file.pdf", <<200>>, "non_html",
         None, None, <<>>, <<>>, <<>>)

\* a record flagged with an error that carries the signals of LoudPage
FlaggedLoudPage ==
    Page("https://a.com/s", "https://a.com/s", <<404>>, "request_failed", LongTitle,
         "Buy now", <<2>>, <<500>>, <<0>>)

\* the most pages of a crawl with flagged records
MaxFlaggedPages == 3

\* pages of a crawl where requests failed or gave something else than HTML
FlaggedPool ==
    { BarePage("https://a.com/p"), LoudPage("https://a.com/q"), LoudPage("https://a.com/r"),
      HealthyPage, FailedPage, NonHtmlPage, FlaggedLoudPage }

\* the pages of a crawl: one address, its www variant with a trailing slash,
\* and its http variant
PagePool ==
    { BarePage("https://a.com/p"), BarePage("https://www.a.com/p/"),
      BarePage("http://a.com/p"),
      LoudPage("https://a.com/p"), LoudPage("https://www.a.com/p/"),
      HealthyPage, FailedPage, UrllessPage }

\* broken-link records: one as check_links_for_broken builds it, one whose URL
\* is only a slash, and one without URL
BrokenPool ==
    { [url |-> "https://www.a.com/x", status |-> <<404>>],
      [url |-> "/", status |-> <<>>],
      [url |-> None, status |-> <<500>>] }

\* pages for _detect_duplicate_titles: a title, its lower-case form, the title
\* behind a space, and no title; at a page, its www variant, and a page that
\* redirects; and a record flagged with an error that carries the title
TitlePool ==
    { Page(a.url, a.final_url, <<200>>, None, t, "Welcome", <<1>>, <<500>>, <<1>>) :
        a \in { [url |-> "https://a.com/p", final_url |-> "https://a.com/p"],
                [url |-> "https://www.a.com/p/", final_url |-> "https://www.a.com/p/"],
                [url |-> "https://a.com/q", final_url |-> "https://a.com/r"] },
        t \in {"Shop", "shop", " Shop", ""} }
        \cup { Page("https://a.com/s", "https://a.com/s", <<200>>, "non_html", "Shop",
                    None, <<>>, <<>>, <<>>) }

\* pages for _detect_missing_schema, the i-th of a list: without JSON-LD, with
\* JSON-LD, and flagged with an error
SchemaKinds == {"without", "with", "error"}

SchemaPage(kind, i) ==
    LET u == "https://a.com/page" \o ToString(i)
    IN  IF kind = "error"
        THEN Page(u, u, <<200>>, "non_html", None, None, <<>>, <<>>, <<>>)
        ELSE Page(u, u, <<200>>, None, "Shop", "Welcome", <<1>>, <<500>>,
                  IF kind = "with" THEN <<2>> ELSE <<0>>)

\* Problems handed to validate_results by a caller: one title with URL lists
\* that are equal as sets or differ by one element, and a second title
ValidatorPool ==
    { [title |-> t, severity |-> "critical", description |-> "1 pages affected.",
       why_it_matters |-> "It matters.", how_to_fix |-> "Fix it.",
       urls |-> u, impact_score |-> 8, effort_hours |-> 10] :
        t \in {"Thin Content"},
        u \in { <<"https://a.com/p">>,
                <<"https://a.com/p", "https://a.com/q">>,
                <<"https://a.com/q", "https://a.com/p">> } }
        \cup { [title |-> "Missing H1 Tags", severity |-> "critical",
                description |-> "1 pages affected.", why_it_matters |-> "It matters.",
                how_to_fix |-> "Fix it.", urls |-> <<"https://a.com/p">>,
                impact_score |-> 9, effort_hours |-> 20] }

\* a Problem as a caller of validate_results writes it
SuppliedProblem(title, description, why_it_matters, how_to_fix, urls) ==
    [title |-> title, severity |-> "critical", description |-> description,
     why_it_matters |-> why_it_matters, how_to_fix |-> how_to_fix, urls |-> urls,
     impact_score |-> 8, effort_hours |-> 10]

\* Problems handed to validate_results by a caller, with and without faults:
\* one in order, with a < and no >; one with an entity in its title, a tag in
\* its description, a denylisted phrase and a URL listed twice; one with a >
\* before a <; one listing the www and the non-www variant of a URL; and one
\* whose description ends and whose why_it_matters starts with the halves of a
\* denylisted phrase
FaultyPool ==
    { SuppliedProblem("Thin Content", "3 pages affected, 2 < 5.", "It matters.", "Fix it.",
                      <<"https://a.com/p", "https://a.com/q">>),
      SuppliedProblem("Q&amp;A", "Use <b>bold</b> text.", "Pages carry <div class= markup.",
                      "Fix it.", <<"https://a.com/p", "https://a.com/p">>),
      SuppliedProblem("Long Titles", "Keep titles > 10 and < 60 letters.", "It matters.",
                      "Fix it.", <<"https://a.com/p">>),
      SuppliedProblem("Missing H1 Tags", "2 pages affected.", "It matters.", "Fix it.",
                      <<"https://www.a.com/p", "https://a.com/p">>),
      SuppliedProblem("Broken Links", "For details see", "sample pages.", "Fix it.",
                      <<"https://a.com/p">>) }

----------------------------------------------------------------------------
(* src/detector.py *)

\* normalize_url without the replacement of "://www."
normalize_url_keeping_www(url) ==
    rstrip(strip(Or(url, "")), {"/"})

normalize_url(url) ==
    replace(rstrip(strip(Or(url, "")), {"/"}), "://www.", "://")

\* the URLs of the input pools
pool_urls ==
    {p.url : p \in PagePool \cup TitlePool} \cup {p.final_url : p \in PagePool \cup TitlePool}
        \cup {b.url : b \in BrokenPool}

\* normalize_url of each of them, evaluated once
normalize_url_table == [u \in pool_urls |-> normalize_url(u)]

\* normalize_url(url), read from the table where the table has it
normalize_url_call(url) ==
    IF url \in pool_urls THEN normalize_url_table[url] ELSE normalize_url(url)

\* the loop of _norm_urls without the test on `seen`
norm_urls_loop_without_seen(urls, result) ==
    result \o SelectSeq([i \in 1..Len(urls) |-> normalize_url(urls[i])],
                        LAMBDA n : n # "")

\* the loop of _norm_urls; `seen` is the set of the entries of result
RECURSIVE norm_urls_loop(_, _)
norm_urls_loop(urls, result) ==
    IF urls = <<>> THEN result
    ELSE LET n == normalize_url_call(Head(urls))
         IN  norm_urls_loop(Tail(urls),
                 IF n # "" /\ n \notin Range(result) THEN Append(result, n) ELSE result)

_norm_urls(urls) == norm_urls_loop(urls, <<>>)

\* int(val), default when val is None
_safe_int(val, default) == IF val = <<>> THEN default ELSE val[1]

\* Problem.priority_score as a fraction num/den (den > 0)
priority_score(p) ==
    IF p.effort_hours <= 0
    THEN [num |-> p.impact_score, den |-> 1]
    ELSE [num |-> p.impact_score * 10, den |-> p.effort_hours]

\* p.get("final_url") or p.get("url")
PageUrl(p) == Or(p.final_url, p.url)

\* a rule that looks at every page, flagged or not
NoError_for_every_page(p) == TRUE

\* the pages a content rule looks at: "if p.get('error'): continue"
NoError(p) == ~Truthy(p.error)

\* (p.get(field) or "").strip()
Stripped(v) == strip(Or(v, ""))

UrlsOf(ps) == [i \in 1..Len(ps) |-> PageUrl(ps[i])]

\* Problem(...): the dataclass of detector.py, effort_hours in tenths of an hour
Problem(title, severity, description, why_it_matters, how_to_fix, urls, impact_score, effort_hours) ==
    [title |-> title, severity |-> severity, description |-> description,
     why_it_matters |-> why_it_matters, how_to_fix |-> how_to_fix, urls |-> urls,
     impact_score |-> impact_score, effort_hours |-> effort_hours]

\* f"{ratio:.0%}" for ratio = n / total: 100 * n / total rounded to the nearest
\* integer, a half going to the even one (exact for the page counts checked
\* here: the only half met, 7 of 8, is 87.5 exactly in binary too)
percent0(n, total) ==
    LET q == (100 * n) \div total
        r == (100 * n) % total
        up == 2 * r > total \/ (2 * r = total /\ q % 2 = 1)
    IN  ToString(IF up THEN q + 1 ELSE q) \o "%"

\* The texts of the Problems, rule by rule; the description starts with the
\* count the rule formats into it.

missing_h1_text ==
    [title |-> "Missing H1 Tags",
     why_it_matters |-> "Google uses the H1 as a primary signal to understand a page's main topic. Pages without an H1 are harder to rank because search engines must guess the topic from other content.",
     how_to_fix |-> "Add a single, descriptive H1 tag to each page that clearly states the page's main topic. Ensure it contains the primary keyword for that page."]

missing_h1_description(n) ==
    ToString(n) \o " pages have no H1 heading tag. The H1 is the most important on-page heading signal for search engines."

duplicate_meta_text ==
    [title |-> "Duplicate Meta Descriptions",
     why_it_matters |-> "Duplicate meta descriptions mean Google sees the same snippet for multiple pages, reducing click-through rates and making it harder for search engines to differentiate pages.",
     how_to_fix |-> "Write a unique, compelling meta description (120-155 characters) for each page that accurately describes its specific content and includes relevant keywords."]

duplicate_meta_description(n) ==
    ToString(n) \o " pages share a meta description with at least one other page. Each page should have a unique meta description."

thin_content_text ==
    [title |-> "Thin Content",
     why_it_matters |-> "Google's Helpful Content system penalises pages that don't provide enough value. Thin pages also have fewer keyword opportunities and are less likely to satisfy search intent.",
     how_to_fix |-> "Expand each thin page with relevant, useful content - aim for at least 300-500 words. If a page truly has nothing to add, consider consolidating it with a related page or setting it to noindex."]

thin_content_description(n, threshold) ==
    ToString(n) \o " pages have fewer than " \o ToString(threshold) \o " words. Pages with very little content are harder to rank and may be seen as low-quality by Google."

multiple_h1_text ==
    [title |-> "Multiple H1 Tags",
     why_it_matters |-> "Multiple H1s dilute the main heading signal. Google can handle them, but a single H1 provides a stronger, unambiguous indication of the page's primary topic.",
     how_to_fix |-> "Keep one H1 per page for the main topic. Demote additional H1 tags to H2 or H3 as appropriate for sub-sections."]

multiple_h1_description(n) ==
    ToString(n) \o " pages have more than one H1 tag. While not a fatal error, having a single H1 gives a clearer topical signal."

title_too_long_text ==
    [title |-> "Title Tags Too Long",
     why_it_matters |-> "Truncated titles lose their full message in search results, which can lower click-through rates. Users may not understand what the page is about.",
     how_to_fix |-> "Rewrite titles to 50-60 characters, front-loading the most important keywords. Move secondary information to the meta description."]

title_too_long_description(n) ==
    ToString(n) \o " pages have title tags longer than 60 characters. Google typically truncates titles beyond this length in search results."

missing_meta_text ==
    [title |-> "Missing Meta Descriptions",
     why_it_matters |-> "Without a meta description, Google picks a random passage from the page as the search snippet. A well-crafted meta description improves click-through rates by giving searchers a clear reason to click.",
     how_to_fix |-> "Add a unique meta description (120-155 characters) to each page. Summarise the page's value proposition and include the primary keyword naturally."]

missing_meta_description(n) ==
    ToString(n) \o " pages have no meta description. Google will auto-generate a snippet, which may not represent the page well."

broken_links_text ==
    [title |-> "Broken Internal Links",
     why_it_matters |-> "Broken links waste crawl budget, create poor user experience, and leak link equity into nowhere. Google may also see excessive broken links as a sign of poor site maintenance.",
     how_to_fix |-> "For each broken link: update the href to point to the correct page, redirect the broken URL to a relevant replacement, or remove the link entirely if the content no longer exists."]

broken_links_description(n) ==
    ToString(n) \o " internal links point to pages that return errors (4xx/5xx). Visitors and search engine crawlers hit dead ends."

missing_title_text ==
    [title |-> "Missing Title Tags",
     why_it_matters |-> "The title tag is what Google displays as the clickable headline in search results. Without one, Google must fabricate a title, often producing a poor or irrelevant result that hurts click-through rates.",
     how_to_fix |-> "Add a unique, descriptive title tag (50-60 characters) to every page. Include the primary keyword near the beginning of the title."]

missing_title_description(n) ==
    ToString(n) \o " pages have no title tag. The title tag is the single most important on-page SEO element."

duplicate_titles_text ==
    [title |-> "Duplicate Title Tags",
     why_it_matters |-> "Duplicate titles cause keyword cannibalization - Google doesn't know which page to rank for a given query, so both pages rank worse. It also confuses users who see identical titles in search results.",
     how_to_fix |-> "Write a unique title for each page that reflects its specific content. Use the primary keyword for that page and differentiate from similar pages."]

duplicate_titles_description(n) ==
    ToString(n) \o " pages share a title tag with at least one other page. Each page needs a unique title for Google to distinguish them."

missing_schema_text ==
    [title |-> "Missing Structured Data",
     why_it_matters |-> "Structured data (JSON-LD) enables rich results in Google - star ratings, FAQ accordions, breadcrumbs, and more. Sites with rich snippets get significantly higher click-through rates.",
     how_to_fix |-> "Add JSON-LD schema markup to your pages. Start with the most impactful types: Article for blog posts, Product for e-commerce, LocalBusiness for local sites, or Organization for the homepage."]

missing_schema_description(n, total_valid) ==
    ToString(n) \o " of " \o ToString(total_valid) \o " analyzed pages (" \o percent0(n, total_valid) \o ") have no JSON-LD structured data. The site is missing rich snippet opportunities."

pages_with_errors_text ==
    [title |-> "Pages Returning Error Status",
     why_it_matters |-> "Having error pages in the sitemap wastes crawl budget and sends negative quality signals. Google expects every URL in a sitemap to return a 200 status. Stale sitemap entries degrade overall crawl efficiency.",
     how_to_fix |-> "Remove the dead URLs from the sitemap. If the content has moved, add 301 redirects to the new locations. If the content is permanently gone, let the 404 or 410 stand but remove from sitemap."]

pages_with_errors_description(n) ==
    ToString(n) \o " URLs from the sitemap return 4xx or 5xx errors. These are dead pages that Google is being told to crawl."
\* A rule returns <<>> for None and <<P>> for the Problem P.

_detect_missing_h1(ps) ==
    LET urls == UrlsOf(SelectSeq(ps,
                    LAMBDA p : NoError(p) /\ _safe_int(p.h1_count, 0) = 0))
    IN  IF urls = <<>> THEN <<>>
        ELSE << Problem(
            missing_h1_text.title,
            "critical",
            missing_h1_description(Len(urls)),
            missing_h1_text.why_it_matters,
            missing_h1_text.how_to_fix,
            _norm_urls(urls), 9, 20) >>

\* dict.setdefault(key, []).append(url) for each <<key, url>> of pairs; the
\* groups stand in the order their keys were first inserted, as dict.items()
\* yields them
RECURSIVE setdefault_append(_, _)
setdefault_append(pairs, groups) ==
    IF pairs = <<>> THEN groups
    ELSE LET k == Head(pairs)[1]
             u == Head(pairs)[2]
             at == {i \in 1..Len(groups) : groups[i].key = k}
         IN  setdefault_append(Tail(pairs),
                 IF at = {}
                 THEN Append(groups, [key |-> k, urls |-> <<u>>])
                 ELSE [groups EXCEPT ![SetMin(at)].urls = Append(@, u)])

\* the urls of all groups, shared or not
dup_urls_of_all_groups(groups) ==
    Flatten([i \in 1..Len(groups) |-> groups[i].urls])

\* the urls of the groups with more than one url, group after group
dup_urls_of(groups) ==
    LET shared == SelectSeq(groups, LAMBDA g : Len(g.urls) > 1)
    IN  Flatten([i \in 1..Len(shared) |-> shared[i].urls])

_detect_duplicate_meta(ps) ==
    LET with_meta == SelectSeq(ps, LAMBDA p : NoError(p) /\ Stripped(p.meta) # "")
        meta_map == setdefault_append(
                        [i \in 1..Len(with_meta) |->
                            <<Stripped(with_meta[i].meta), PageUrl(with_meta[i])>>],
                        <<>>)
        dup_urls == dup_urls_of(meta_map)
    IN  IF dup_urls = <<>> THEN <<>>
        ELSE << Problem(
            duplicate_meta_text.title,
            "critical",
            duplicate_meta_description(Len(dup_urls)),
            duplicate_meta_text.why_it_matters,
            duplicate_meta_text.how_to_fix,
            _norm_urls(dup_urls), 8, 10) >>

_detect_thin_content(ps, threshold) ==
    LET urls == UrlsOf(SelectSeq(ps,
                    LAMBDA p : /\ NoError(p)
                               /\ 0 < _safe_int(p.word_count, 0)
                               /\ _safe_int(p.word_count, 0) < threshold))
    IN  IF urls = <<>> THEN <<>>
        ELSE << Problem(
            thin_content_text.title,
            "critical",
            thin_content_description(Len(urls), threshold),
            thin_content_text.why_it_matters,
            thin_content_text.how_to_fix,
            _norm_urls(urls), 8, 40) >>

_detect_multiple_h1(ps) ==
    LET urls == UrlsOf(SelectSeq(ps,
                    LAMBDA p : NoError(p) /\ _safe_int(p.h1_count, 0) > 1))
    IN  IF urls = <<>> THEN <<>>
        ELSE << Problem(
            multiple_h1_text.title,
            "warning",
            multiple_h1_description(Len(urls)),
            multiple_h1_text.why_it_matters,
            multiple_h1_text.how_to_fix,
            _norm_urls(urls), 6, 10) >>

_detect_title_too_long(ps) ==
    LET urls == UrlsOf(SelectSeq(ps,
                    LAMBDA p : /\ NoError(p)
                               /\ Stripped(p.title) # ""
                               /\ Len(Stripped(p.title)) > 60))
    IN  IF urls = <<>> THEN <<>>
        ELSE << Problem(
            title_too_long_text.title,
            "warning",
            title_too_long_description(Len(urls)),
            title_too_long_text.why_it_matters,
            title_too_long_text.how_to_fix,
            _norm_urls(urls), 5, 20) >>

\* _detect_missing_meta with a severity that is neither critical nor warning
_detect_missing_meta_as_notice(ps) ==
    LET urls == UrlsOf(SelectSeq(ps,
                    LAMBDA p : NoError(p) /\ Stripped(p.meta) = ""))
    IN  IF urls = <<>> THEN <<>>
        ELSE << Problem(
            missing_meta_text.title,
            "notice",
            missing_meta_description(Len(urls)),
            missing_meta_text.why_it_matters,
            missing_meta_text.how_to_fix,
            _norm_urls(urls), 7, 15) >>

_detect_missing_meta(ps) ==
    LET urls == UrlsOf(SelectSeq(ps,
                    LAMBDA p : NoError(p) /\ Stripped(p.meta) = ""))
    IN  IF urls = <<>> THEN <<>>
        ELSE << Problem(
            missing_meta_text.title,
            "warning",
            missing_meta_description(Len(urls)),
            missing_meta_text.why_it_matters,
            missing_meta_text.how_to_fix,
            _norm_urls(urls), 7, 15) >>

\* _detect_broken_links with an effort of 2.0 hours
_detect_broken_links_effort_2h(broken_examples) ==
    IF broken_examples = <<>> THEN <<>>
    ELSE LET urls == _norm_urls([i \in 1..Len(broken_examples) |->
                                    Get(broken_examples[i].url, "")])
         IN  IF urls = <<>> THEN <<>>
             ELSE << Problem(
                 broken_links_text.title,
                 "critical",
                 broken_links_description(Len(urls)),
                 broken_links_text.why_it_matters,
                 broken_links_text.how_to_fix,
                 urls, 9, 20) >>

_detect_broken_links(broken_examples) ==
    IF broken_examples = <<>> THEN <<>>
    ELSE LET urls == _norm_urls([i \in 1..Len(broken_examples) |->
                                    Get(broken_examples[i].url, "")])
         IN  IF urls = <<>> THEN <<>>
             ELSE << Problem(
                 broken_links_text.title,
                 "critical",
                 broken_links_description(Len(urls)),
                 broken_links_text.why_it_matters,
                 broken_links_text.how_to_fix,
                 urls, 9, 5) >>

_detect_missing_title(ps) ==
    LET urls == UrlsOf(SelectSeq(ps,
                    LAMBDA p : NoError(p) /\ Stripped(p.title) = ""))
    IN  IF urls = <<>> THEN <<>>
        ELSE << Problem(
            missing_title_text.title,
            "critical",
            missing_title_description(Len(urls)),
            missing_title_text.why_it_matters,
            missing_title_text.how_to_fix,
            _norm_urls(urls), 9, 10) >>

_detect_duplicate_titles(ps) ==
    LET with_title == SelectSeq(ps, LAMBDA p : NoError(p) /\ Stripped(p.title) # "")
        title_map == setdefault_append(
                         [i \in 1..Len(with_title) |->
                             <<Stripped(with_title[i].title), PageUrl(with_title[i])>>],
                         <<>>)
        dup_urls == dup_urls_of(title_map)
    IN  IF dup_urls = <<>> THEN <<>>
        ELSE << Problem(
            duplicate_titles_text.title,
            "critical",
            duplicate_titles_description(Len(dup_urls)),
            duplicate_titles_text.why_it_matters,
            duplicate_titles_text.how_to_fix,
            _norm_urls(dup_urls), 8, 10) >>

\* the threshold with "ratio <= 0.7"
below_schema_threshold_inclusive(n, total_valid) ==
    10 * n <= 7 * total_valid \/ n < 3

\* "ratio < 0.7 or len(urls_without) < 3" with ratio = n / total_valid: the
\* float quotient is below the float 0.7 exactly when 10 * n < 7 * total_valid
\* (for every total_valid below 10^15)
below_schema_threshold(n, total_valid) == 10 * n < 7 * total_valid \/ n < 3

_detect_missing_schema(ps) ==
    LET valid == SelectSeq(ps, NoError)
        total_valid == Len(valid)
        urls_without == UrlsOf(SelectSeq(valid,
                            LAMBDA p : _safe_int(p.jsonld_count, 0) = 0))
    IN  IF total_valid = 0 THEN <<>>
        ELSE IF below_schema_threshold(Len(urls_without), total_valid) THEN <<>>
        ELSE << Problem(
            missing_schema_text.title,
            "warning",
            missing_schema_description(Len(urls_without), total_valid),
            missing_schema_text.why_it_matters,
            missing_schema_text.how_to_fix,
            _norm_urls(Prefix(urls_without, 40)), 5, 30) >>

_detect_pages_with_errors(ps) ==
    LET failing == SelectSeq(ps,
                       LAMBDA p : /\ (p.status = <<>> \/ p.status[1] >= 400)
                                  /\ Truthy(Get(p.url, "")))
        urls == [i \in 1..Len(failing) |-> failing[i].url]
    IN  IF urls = <<>> THEN <<>>
        ELSE << Problem(
            pages_with_errors_text.title,
            "critical",
            pages_with_errors_description(Len(urls)),
            pages_with_errors_text.why_it_matters,
            pages_with_errors_text.how_to_fix,
            _norm_urls(urls), 8, 10) >>

\* a.priority_score >= b.priority_score
score_ge(a, b) ==
    priority_score(a).num * priority_score(b).den
        >= priority_score(b).num * priority_score(a).den

\* a sort by priority that is not stable: a Problem goes before the Problems
\* of its own score
RECURSIVE sorted_by_priority_unstable(_)
sorted_by_priority_unstable(ps) ==
    IF ps = <<>> THEN <<>>
    ELSE LET p == ps[Len(ps)]
             ranked == sorted_by_priority_unstable(SubSeq(ps, 1, Len(ps) - 1))
             k == Cardinality({i \in 1..Len(ranked) :
                                  score_ge(ranked[i], p) /\ ~score_ge(p, ranked[i])})
         IN  SubSeq(ranked, 1, k) \o <<p>> \o SubSeq(ranked, k + 1, Len(ranked))

\* sorted(ps, key=lambda p: p.priority_score, reverse=True). Python's sort is
\* stable, with reverse=True too: a Problem goes behind every Problem that
\* precedes it in ps and scores at least as much, and before the others.
RECURSIVE sorted_by_priority(_)
sorted_by_priority(ps) ==
    IF ps = <<>> THEN <<>>
    ELSE LET p == ps[Len(ps)]
             ranked == sorted_by_priority(SubSeq(ps, 1, Len(ps) - 1))
             k == Cardinality({i \in 1..Len(ranked) : score_ge(ranked[i], p)})
         IN  SubSeq(ranked, 1, k) \o <<p>> \o SubSeq(ranked, k + 1, Len(ranked))

\* the eleven rules, in the order of the list `detectors`
detectors(ps, broken, thin_content_threshold) ==
    << _detect_missing_h1(ps),
       _detect_duplicate_meta(ps),
       _detect_thin_content(ps, thin_content_threshold),
       _detect_multiple_h1(ps),
       _detect_title_too_long(ps),
       _detect_missing_meta(ps),
       _detect_broken_links(broken),
       _detect_missing_title(ps),
       _detect_duplicate_titles(ps),
       _detect_missing_schema(ps),
       _detect_pages_with_errors(ps) >>

\* "if problem is not None and problem.urls: all_problems.append(problem)"
collect(found) ==
    Flatten(SelectSeq(found, LAMBDA r : r # <<>> /\ r[1].urls # <<>>))

\* detect_problems ranking every Problem the rules return, those with an
\* empty URL list included
detect_problems_ranking_all_returned(ps, broken, thin_content_threshold) ==
    LET found == detectors(ps, broken, thin_content_threshold)
        all == collect(found)
        ranked == sorted_by_priority(Flatten(found))
    IN  [all_problems |-> all,
         quick_wins |-> Prefix(ranked, 5),
         critical_errors |-> SelectSeq(all, LAMBDA p : p.severity = "critical"),
         warnings |-> SelectSeq(all, LAMBDA p : p.severity = "warning")]

detect_problems(ps, broken, thin_content_threshold) ==
    LET all == collect(detectors(ps, broken, thin_content_threshold))
        ranked == sorted_by_priority(all)
    IN  [all_problems |-> all,
         quick_wins |-> Prefix(ranked, 5),
         critical_errors |-> SelectSeq(all, LAMBDA p : p.severity = "critical"),
         warnings |-> SelectSeq(all, LAMBDA p : p.severity = "warning")]

----------------------------------------------------------------------------
(* `sub in text` for the texts the rules write *)

forbidden_phrases ==
    << "Not explicitly listed",
       "identified in crawl_summary",
       "see sample",
       "<p class=",
       "<div class=",
       "Not collected in this audit" >>

TabledCounts == 0..(MaxPages + MaxBroken)

tabled_patterns ==
    {"<", ">", "&lt;", "&gt;", "&amp;"} \cup Range(forbidden_phrases)

\* the three texts validate_results joins before it looks for the phrases
full_text_of(description, why_it_matters, how_to_fix) ==
    description \o " " \o why_it_matters \o " " \o how_to_fix

tabled_problem_texts(text, descriptions) ==
    {text.title, text.why_it_matters, text.how_to_fix}
        \cup descriptions
        \cup {full_text_of(d, text.why_it_matters, text.how_to_fix) : d \in descriptions}

\* the texts of the Problems a caller supplies
supplied_texts ==
    UNION { {q.title, q.description, q.why_it_matters, q.how_to_fix,
             full_text_of(q.description, q.why_it_matters, q.how_to_fix)} :
            q \in ValidatorPool \cup FaultyPool }

tabled_texts ==
    supplied_texts
    \cup tabled_problem_texts(missing_h1_text,
        {missing_h1_description(n) : n \in TabledCounts})
    \cup tabled_problem_texts(duplicate_meta_text,
        {duplicate_meta_description(n) : n \in TabledCounts})
    \cup tabled_problem_texts(thin_content_text,
        {thin_content_description(n, default_thin_content_threshold) : n \in TabledCounts})
    \cup tabled_problem_texts(multiple_h1_text,
        {multiple_h1_description(n) : n \in TabledCounts})
    \cup tabled_problem_texts(title_too_long_text,
        {title_too_long_description(n) : n \in TabledCounts})
    \cup tabled_problem_texts(missing_meta_text,
        {missing_meta_description(n) : n \in TabledCounts})
    \cup tabled_problem_texts(broken_links_text,
        {broken_links_description(n) : n \in TabledCounts})
    \cup tabled_problem_texts(missing_title_text,
        {missing_title_description(n) : n \in TabledCounts})
    \cup tabled_problem_texts(duplicate_titles_text,
        {duplicate_titles_description(n) : n \in TabledCounts})
    \cup tabled_problem_texts(missing_schema_text,
        {missing_schema_description(n, total) :
            n \in TabledCounts, total \in TabledCounts \ {0}})
    \cup tabled_problem_texts(pages_with_errors_text,
        {pages_with_errors_description(n) : n \in TabledCounts})

\* for each of these texts, the patterns it holds: In, evaluated once
in_table == [t \in tabled_texts |-> {sub \in tabled_patterns : In(sub, t)}]

\* sub in s: read from in_table where the table has it, In(sub, s) otherwise
contains(sub, s) ==
    IF sub \in tabled_patterns /\ s \in tabled_texts
    THEN sub \in in_table[s]
    ELSE In(sub, s)

----------------------------------------------------------------------------
(* src/validator.py *)

\* repr(s) of a str without backslashes or control characters: single quotes,
\* double quotes when s holds a single quote and no double quote
repr(s) ==
    IF contains("'", s) /\ ~contains("\"", s) THEN "\"" \o s \o "\"" ELSE "'" \o s \o "'"

\* a lookup by title that keeps the first of several Problems with one title
detail_by_title_get_first(all_detailed, title) ==
    LET at == {i \in 1..Len(all_detailed) : all_detailed[i].title = title}
    IN  IF at = {} THEN <<>> ELSE <<all_detailed[SetMin(at)]>>

\* detail_by_title.get(title) for detail_by_title = {p.title: p for p in
\* all_detailed}: of several Problems with one title the dict keeps the last
detail_by_title_get(all_detailed, title) ==
    LET at == {i \in 1..Len(all_detailed) : all_detailed[i].title = title}
    IN  IF at = {} THEN <<>> ELSE <<all_detailed[SetMax(at)]>>

\* check 1, for one quick win
quick_win_errors(qw, all_detailed) ==
    LET match == detail_by_title_get(all_detailed, qw.title)
    IN  IF match = <<>>
        THEN << "Quick Win '" \o qw.title
                    \o "' has no matching entry in critical_errors or warnings" >>
        ELSE IF Range(qw.urls) # Range(match[1].urls)
        THEN << "Quick Win '" \o qw.title \o "' URL list differs from its detail entry ("
                    \o ToString(Len(qw.urls)) \o " vs "
                    \o ToString(Len(match[1].urls)) \o " URLs)" >>
        ELSE <<>>

\* check 2, for one field of one Problem
field_markup_errors(problem, field_name, field_val) ==
    IF field_val = "" THEN <<>>
    ELSE (IF contains("<", field_val) /\ contains(">", field_val)
          THEN << "Possible HTML in '" \o problem.title \o "'." \o field_name \o ": "
                      \o repr(Prefix(field_val, 80)) >>
          ELSE <<>>)
         \o
         (IF contains("&lt;", field_val) \/ contains("&gt;", field_val) \/ contains("&amp;", field_val)
          THEN << "HTML entity in '" \o problem.title \o "'." \o field_name \o ": "
                      \o repr(Prefix(field_val, 80)) >>
          ELSE <<>>)

markup_errors(problem) ==
    field_markup_errors(problem, "title", problem.title)
        \o field_markup_errors(problem, "description", problem.description)
        \o field_markup_errors(problem, "why_it_matters", problem.why_it_matters)
        \o field_markup_errors(problem, "how_to_fix", problem.how_to_fix)

\* check 3, for one Problem
duplicate_url_errors(problem) ==
    IF Len(problem.urls) # Cardinality(Range(problem.urls))
    THEN << "Duplicate URLs in '" \o problem.title \o "' (check www normalisation)" >>
    ELSE <<>>

\* check 4, for one Problem
forbidden_text_errors(problem) ==
    LET full_text == full_text_of(problem.description, problem.why_it_matters,
                                  problem.how_to_fix)
        hits == SelectSeq(forbidden_phrases, LAMBDA phrase : contains(phrase, full_text))
    IN  [i \in 1..Len(hits) |->
            "Forbidden text in '" \o problem.title \o "': contains '" \o hits[i] \o "'"]

\* a validator that keeps only the first violation it finds
validation_errors_first_only(qws, crit, warn) ==
    LET all_detailed == crit \o warn
        checked == qws \o crit \o warn
        found == Flatten([i \in 1..Len(qws) |-> quick_win_errors(qws[i], all_detailed)])
                     \o Flatten([i \in 1..Len(checked) |-> markup_errors(checked[i])])
                     \o Flatten([i \in 1..Len(checked) |-> duplicate_url_errors(checked[i])])
                     \o Flatten([i \in 1..Len(checked) |-> forbidden_text_errors(checked[i])])
    IN  Prefix(found, 1)

\* the list `errors` when validate_results reaches its report
validation_errors(qws, crit, warn) ==
    LET all_detailed == crit \o warn
        checked == qws \o crit \o warn
    IN  Flatten([i \in 1..Len(qws) |-> quick_win_errors(qws[i], all_detailed)])
        \o Flatten([i \in 1..Len(checked) |-> markup_errors(checked[i])])
        \o Flatten([i \in 1..Len(checked) |-> duplicate_url_errors(checked[i])])
        \o Flatten([i \in 1..Len(checked) |-> forbidden_text_errors(checked[i])])

\* "\n".join(lines)
RECURSIVE join_lines(_)
join_lines(lines) ==
    IF lines = <<>> THEN ""
    ELSE IF Len(lines) = 1 THEN lines[1]
    ELSE lines[1] \o "\n" \o join_lines(Tail(lines))

\* validate_results: returns True, or raises ValueError(msg)
validate_results(qws, crit, warn) ==
    LET errors == validation_errors(qws, crit, warn)
    IN  IF errors # <<>>
        THEN [raised |-> "ValueError",
              errors |-> errors,
              msg |-> "VALIDATION FAILED:\n"
                          \o join_lines([i \in 1..Len(errors) |-> "  * " \o errors[i]])]
        ELSE [raised |-> None, errors |-> <<>>, msg |-> ""]

----------------------------------------------------------------------------
(* src/app.py: normalize_domain *)

upper_letters == "ABCDEFGHIJKLMNOPQRSTUVWXYZ"

lower_letters == "abcdefghijklmnopqrstuvwxyz"

\* s.lower(), on ASCII text
RECURSIVE lower(_)
lower(s) ==
    IF s = "" THEN ""
    ELSE LET c == SubSeq(s, 1, 1)
             at == {i \in 1..Len(upper_letters) : SubSeq(upper_letters, i, i) = c}
         IN  (IF at = {} THEN c ELSE SubSeq(lower_letters, SetMin(at), SetMin(at)))
                 \o lower(SubSeq(s, 2, Len(s)))

\* s.startswith(prefix): the comparison is case-sensitive
startswith(s, prefix) == Len(s) >= Len(prefix) /\ SubSeq(s, 1, Len(prefix)) = prefix

\* s.find(sub) + 1: the place of the first occurrence, 0 when there is none
find(s, sub) ==
    LET at == {i \in 1..(Len(s) - Len(sub) + 1) : SubSeq(s, i, i + Len(sub) - 1) = sub}
    IN  IF at = {} THEN 0 ELSE SetMin(at)

\* urlparse(url).netloc for a url with a scheme of letters: urlsplit drops
\* tabs and line ends, takes the scheme up to the first ":", and after "//"
\* the netloc ends before the first "/", "?" or "#"
netloc(url) ==
    LET u == replace(replace(replace(url, "\t", ""), "\r", ""), "\n", "")
        colon == find(u, ":")
        rest == SubSeq(u, colon + 1, Len(u))
    IN  IF colon = 0 \/ ~startswith(rest, "//") THEN ""
        ELSE LET after == SubSeq(rest, 3, Len(rest))
                 ends == {i \in 1..Len(after) : SubSeq(after, i, i) \in {"/", "?", "#"}}
             IN  IF ends = {} THEN after ELSE SubSeq(after, 1, SetMin(ends) - 1)

\* s.split(sep)[0]
split_first(s, sep) ==
    IF find(s, sep) = 0 THEN s ELSE SubSeq(s, 1, find(s, sep) - 1)

normalize_domain(url_or_domain) ==
    LET s0 == strip(Or(url_or_domain, ""))
    IN  IF ~Truthy(s0) THEN ""
        ELSE LET s1 == IF startswith(s0, "http://") \/ startswith(s0, "https://")
                       THEN netloc(s0) ELSE s0
                 s2 == lower(s1)
                 s3 == IF startswith(s2, "www.") THEN SubSeq(s2, 5, Len(s2)) ELSE s2
             IN  split_first(s3, ":")

\* the most "www." labels at the head of a host
MaxWww == 2

RECURSIVE repeat(_, _)
repeat(s, n) == IF n = 0 THEN "" ELSE s \o repeat(s, n - 1)

\* raw URLs and bare domains: padding, scheme, www labels, host, port, path
DomainInputs ==
    { lead \o scheme \o repeat(www, n) \o host \o port \o path \o trail :
        lead \in {"", " "},
        scheme \in {"", "http://", "https://", "HTTPS://", "Http://"},
        www \in {"www.", "WWW."},
        n \in 0..MaxWww,
        host \in {"", "a.com", "Example.com"},
        port \in {"", ":443"},
        path \in {"", "/x", "?q"},
        trail \in {"", "\n"} }

----------------------------------------------------------------------------
(* src/app.py: pick_sample_urls *)

MAX_PAGES_BASIC == 40

\* list(dict.fromkeys(xs)): each value once, where it stood first (a list
\* without repeats is returned as it is)
RECURSIVE fromkeys(_)
fromkeys(xs) ==
    IF Cardinality(Range(xs)) = Len(xs) THEN xs
    ELSE LET before == fromkeys(SubSeq(xs, 1, Len(xs) - 1))
             last == xs[Len(xs)]
         IN  IF last \in Range(before) THEN before ELSE Append(before, last)

\* s.strip(chars)
strip_chars(s, chars) ==
    LET keep == {i \in 1..Len(s) : SubSeq(s, i, i) \notin chars}
    IN  IF keep = {} THEN "" ELSE SubSeq(s, SetMin(keep), SetMax(keep))

\* urlparse(url).path for a url with a scheme of letters and "//": what
\* follows the netloc, up to the first "?" or "#"
urlparse_path(url) ==
    LET u == replace(replace(replace(url, "\t", ""), "\r", ""), "\n", "")
        colon == find(u, ":")
        after == SubSeq(u, colon + 3, Len(u))
        from_netloc == SubSeq(after, Len(netloc(url)) + 1, Len(after))
        ends == {i \in 1..Len(from_netloc) : SubSeq(from_netloc, i, i) \in {"?", "#"}}
    IN  IF ends = {} THEN from_netloc ELSE SubSeq(from_netloc, 1, SetMin(ends) - 1)

\* the bucket of a URL, were it its whole path
bucket_of_whole_path(u) ==
    LET path == strip_chars(Or(urlparse_path(u), "/"), {"/"})
    IN  IF Truthy(path) THEN path ELSE "_root"

\* the bucket of a URL: the first segment of its path
bucket_of(u) ==
    LET path == strip_chars(Or(urlparse_path(u), "/"), {"/"})
    IN  IF Truthy(path) THEN split_first(path, "/") ELSE "_root"

\* by_bucket, as its items() yields it
by_bucket_of(urls) ==
    setdefault_append([i \in 1..Len(urls) |-> <<bucket_of(urls[i]), urls[i]>>], <<>>)

\* the loop over by_bucket.items()
RECURSIVE bucket_loop(_, _, _)
bucket_loop(groups, sample, max_pages) ==
    IF groups = <<>> \/ Len(sample) >= max_pages THEN sample
    ELSE LET chosen == Head(groups).urls[1]
         IN  bucket_loop(Tail(groups),
                         IF chosen \notin Range(sample) THEN Append(sample, chosen) ELSE sample,
                         max_pages)

\* the loop that fills the sample from urls
RECURSIVE fill_loop(_, _, _)
fill_loop(urls, sample, max_pages) ==
    IF urls = <<>> \/ Len(sample) >= max_pages THEN sample
    ELSE fill_loop(Tail(urls),
                   IF Head(urls) \notin Range(sample) THEN Append(sample, Head(urls)) ELSE sample,
                   max_pages)

\* if len(sample) < max_pages: the fill loop
fill_sample(urls, sample, max_pages) ==
    IF Len(sample) < max_pages THEN fill_loop(urls, sample, max_pages) ELSE sample

\* pick_sample_urls, were the homepage appended after the buckets and the fill
pick_sample_urls_homepage_last(urls_in, homepage_url, max_pages) ==
    LET urls == fromkeys(SelectSeq(urls_in,
                    LAMBDA u : startswith(u, "http://") \/ startswith(u, "https://")))
        sample1 == bucket_loop(by_bucket_of(urls), <<>>, max_pages)
    IN  Prefix(fill_sample(urls, sample1, max_pages)
                   \o (IF Truthy(homepage_url) THEN <<homepage_url>> ELSE <<>>),
               max_pages)

pick_sample_urls(urls_in, homepage_url, max_pages) ==
    LET urls == fromkeys(SelectSeq(urls_in,
                    LAMBDA u : startswith(u, "http://") \/ startswith(u, "https://")))
        sample0 == IF Truthy(homepage_url) THEN <<homepage_url>> ELSE <<>>
        sample1 == bucket_loop(by_bucket_of(urls), sample0, max_pages)
    IN  Prefix(fill_sample(urls, sample1, max_pages), max_pages)

\* the most discovered URLs of one pick_sample_urls call
MaxDiscovered == 4

\* the largest max_pages below the default
MaxSamplePages == 3

\* what discovery finds: pages of several sections, the site root with and
\* without its slash, and a reference that is not an absolute URL
DiscoveredPool ==
    { "https://a.com", "https://a.com/", "https://a.com/blog/1", "https://a.com/blog/2?p=1",
      "https://a.com/shop/x/y", "/contact" }

HomepagePool == { "", "https://a.com" }

----------------------------------------------------------------------------
(* src/app.py: parse_sitemap_xml and fetch_sitemap_urls                     *)
(*                                                                         *)
(* A sitemap URL is modelled by the document the site serves under it: a   *)
(* urlset with its <loc> texts, a sitemapindex with the documents its      *)
(* <loc> texts point to, or a fetch that fails.                            *)

\* the default of fetch_sitemap_urls' max_urls
default_max_urls == 6000

\* the children of an index that are fetched: sitemaps[:20]
child_sitemap_limit == 20

Urlset(urls) == [kind |-> "urlset", urls |-> urls, sitemaps |-> <<>>]

SitemapIndex(sitemaps) == [kind |-> "sitemapindex", urls |-> <<>>, sitemaps |-> sitemaps]

\* no response, or a status of 400 and above
FailedFetch == [kind |-> "failed", urls |-> <<>>, sitemaps |-> <<>>]

\* parse_sitemap_xml(r.text): <<urls, sitemaps>>
parse_sitemap_xml(doc) ==
    IF doc.kind = "sitemapindex" THEN <<<<>>, doc.sitemaps>> ELSE <<doc.urls, <<>>>>

RECURSIVE fetch_sitemap_urls(_, _)
RECURSIVE child_loop(_, _, _)

\* for sm in sitemaps[:20]: extend all_urls by the child's URLs, and break
\* once all_urls has max_urls elements
child_loop(sitemaps, all_urls, max_urls) ==
    IF sitemaps = <<>> THEN all_urls
    ELSE LET extended == all_urls \o fetch_sitemap_urls(Head(sitemaps), max_urls)
         IN  IF Len(extended) >= max_urls THEN extended
             ELSE child_loop(Tail(sitemaps), extended, max_urls)

fetch_sitemap_urls(doc, max_urls) ==
    IF doc.kind = "failed" THEN <<>>
    ELSE LET urls == parse_sitemap_xml(doc)[1]
             sitemaps == parse_sitemap_xml(doc)[2]
             all_urls == child_loop(Prefix(sitemaps, child_sitemap_limit), urls, max_urls)
         IN  Prefix(fromkeys(all_urls), max_urls)

\* the most child sitemaps of an index, the one with a child per page apart
MaxChildren == 3

\* the largest max_urls below the default
MaxUrlsCap == 3

Loc(i) == "https://a.com/p" \o ToString(i)

\* the documents an index points to
ChildPool ==
    { Urlset(<<>>), Urlset(<<Loc(1)>>), Urlset(<<Loc(1), Loc(2)>>),
      Urlset(<<Loc(2), Loc(2), Loc(3)>>), Urlset(<<Loc(4)>>), FailedFetch,
      SitemapIndex(<<Urlset(<<Loc(3)>>), Urlset(<<Loc(5)>>)>>) }

\* an index with one more child than are fetched, a page in each
WideIndex == SitemapIndex([i \in 1..(child_sitemap_limit + 1) |-> Urlset(<<Loc(i)>>)])

----------------------------------------------------------------------------
(* src/app.py: get_robots_sitemaps, try_default_sitemaps and the sitemap    *)
(* resolution of basic_real_audit                                          *)
(*                                                                         *)
(* A site is modelled by what robots.txt lists after "Sitemap:" and by the *)
(* number of page URLs each sitemap URL serves (0: the fetch fails).       *)

\* the site an audit is run on
BaseUrl == "https://a.com"

\* get_robots_sitemaps: the listed sitemap URLs, each once
get_robots_sitemaps(listed) == fromkeys(listed)

\* try_default_sitemaps(base_url)
try_default_sitemaps(base_url) ==
    LET base == rstrip(base_url, {"/"}) \o "/"
    IN  << base \o "sitemap.xml", base \o "sitemap_index.xml", base \o "sitemap-index.xml" >>

\* the document a sitemap URL serves on a site: pages of its own, and in
\* custom.xml the homepage ahead of them
served(site, sm) ==
    IF sm \in DOMAIN site /\ site[sm] > 0
    THEN Urlset([i \in 1..site[sm] |->
                    IF i = 1 /\ sm = BaseUrl \o "/custom.xml" THEN BaseUrl
                    ELSE sm \o "#" \o ToString(i)])
    ELSE FailedFetch

\* for sm in sitemaps: the first sitemap whose fetch yields a URL is adopted
RECURSIVE first_yielding(_, _)
first_yielding(sitemaps, site) ==
    IF sitemaps = <<>> THEN [used_sitemap |-> None, discovered_urls |-> <<>>]
    ELSE LET urls == fetch_sitemap_urls(served(site, Head(sitemaps)), default_max_urls)
         IN  IF urls # <<>> THEN [used_sitemap |-> Head(sitemaps), discovered_urls |-> urls]
             ELSE first_yielding(Tail(sitemaps), site)

\* the candidate list of basic_real_audit: what robots.txt lists, and the
\* defaults when it lists nothing
candidate_sitemaps(base_url, listed) ==
    IF get_robots_sitemaps(listed) # <<>> THEN get_robots_sitemaps(listed)
    ELSE try_default_sitemaps(base_url)

\* the sitemap resolution of basic_real_audit
resolve_sitemaps(base_url, listed, site) ==
    first_yielding(candidate_sitemaps(base_url, listed), site)

\* sample_urls: the homepage alone when nothing was discovered
sample_urls_of(discovered_urls, homepage) ==
    IF discovered_urls = <<>> THEN <<homepage>>
    ELSE pick_sample_urls(discovered_urls, homepage, MAX_PAGES_BASIC)

\* the context keys that discovery and sampling decide (pages gets one
\* record for each sampled URL)
context_of(resolved, homepage) ==
    [discovery_method |-> IF resolved.discovered_urls = <<>>
                          THEN "homepage_only (no sitemap found)"
                          ELSE "robots/sitemap (" \o resolved.used_sitemap \o ")",
     urls_discovered |-> IF resolved.discovered_urls = <<>> THEN 1
                         ELSE Len(resolved.discovered_urls),
     urls_analyzed |-> Len(sample_urls_of(resolved.discovered_urls, homepage)),
     sample_urls |-> sample_urls_of(resolved.discovered_urls, homepage)]

\* basic_real_audit, up to the pages list
basic_real_audit(base_url, listed, site) ==
    context_of(resolve_sitemaps(base_url, listed, site), base_url)

\* the most sitemap lines of a robots.txt
MaxListed == 2

SitemapNames ==
    { BaseUrl \o "/sitemap.xml", BaseUrl \o "/sitemap-index.xml", BaseUrl \o "/post-sitemap.xml",
      BaseUrl \o "/news-sitemap.xml", BaseUrl \o "/custom.xml" }

\* sites: a sitemap serves no, few or forty URLs, the news sitemap five hundred
SitePool ==
    { site \in [SitemapNames -> {0, 5, 40, 500}] :
        \A sm \in SitemapNames : (site[sm] = 500) <=> (sm = BaseUrl \o "/news-sitemap.xml") }

----------------------------------------------------------------------------
(* src/app.py: fetch_sitemap_urls, call by call                             *)
(*                                                                         *)
(* Here a site is a function from sitemap URLs to the documents served     *)
(* under them, and an index names its children by their URLs, so that an   *)
(* index can list itself or an index that lists it.  A frame of the stack  *)
(* is one call of fetch_sitemap_urls: its sitemap_url, the children its    *)
(* loop has still to fetch, and its all_urls.                              *)

\* the document served under sm; a URL the site does not know fails
document_at(web, sm) == IF sm \in DOMAIN web THEN web[sm] ELSE FailedFetch

\* a call at its start: the fetch, the parse, all_urls.extend(urls)
frame_of(web, sm) ==
    IF document_at(web, sm).kind = "failed"
    THEN [sitemap_url |-> sm, todo |-> <<>>, all_urls |-> <<>>]
    ELSE [sitemap_url |-> sm,
          todo |-> Prefix(parse_sitemap_xml(document_at(web, sm))[2], child_sitemap_limit),
          all_urls |-> parse_sitemap_xml(document_at(web, sm))[1]]

\* what a call returns when its loop is over
result_of(frame, max_urls) == Prefix(fromkeys(frame.all_urls), max_urls)

\* the caller's frame after all_urls.extend(child) and the test of the break
extended_by(frame, child, max_urls) ==
    [frame EXCEPT !.all_urls = @ \o child,
                  !.todo = IF Len(frame.all_urls \o child) >= max_urls THEN <<>> ELSE @]

\* the deepest call stack the model follows
MaxDepth == 4

\* the most children of an index of WebPool
MaxWebChildren == 2

WebNames == { BaseUrl \o "/sitemap.xml", BaseUrl \o "/sitemap2.xml", BaseUrl \o "/sitemap3.xml" }

\* what a sitemap URL may serve: nothing, pages, or an index of sitemap URLs
WebDocuments ==
    { FailedFetch, Urlset(<<Loc(1), Loc(2)>>), Urlset(<<Loc(2), Loc(3)>>) }
        \cup { SitemapIndex(c) : c \in SeqsUpTo(WebNames, MaxWebChildren) }

WebPool == [WebNames -> WebDocuments]

----------------------------------------------------------------------------
(* src/app.py: the link pool of basic_real_audit and check_links_for_broken *)
(*                                                                         *)
(* What a request gives is <<>> when it raises (timeout, connection        *)
(* error) and <<code>> when it returns a response with that status code.   *)
(* A frame of check_links_for_broken holds its links, the number of links  *)
(* its loop has been through, ok, broken, whether the loop is over, and    *)
(* the requests it has sent.                                               *)

MAX_INTERNAL_LINKS_PER_PAGE == 10

MAX_BROKEN_LINK_CHECKS == 180

\* if len(broken) >= 25: break
broken_links_cap == 25

\* if ln not in all_links: all_links.append(ln)
add_link(all_links, ln) == IF ln \in Range(all_links) THEN all_links ELSE Append(all_links, ln)

\* for ln in sample_internal_links, with its break
RECURSIVE page_links_loop(_, _)
page_links_loop(lns, all_links) ==
    IF lns = <<>> THEN all_links
    ELSE IF Len(add_link(all_links, Head(lns))) >= MAX_BROKEN_LINK_CHECKS
         THEN add_link(all_links, Head(lns))
         ELSE page_links_loop(Tail(lns), add_link(all_links, Head(lns)))

\* for pz in pages, with its break; a page is given by its
\* sample_internal_links (<<>> for a record that has none)
RECURSIVE all_links_loop(_, _)
all_links_loop(page_links, all_links) ==
    IF page_links = <<>> THEN all_links
    ELSE IF Len(page_links_loop(Head(page_links), all_links)) >= MAX_BROKEN_LINK_CHECKS
         THEN page_links_loop(Head(page_links), all_links)
         ELSE all_links_loop(Tail(page_links), page_links_loop(Head(page_links), all_links))

\* the link pool handed to check_links_for_broken
all_links_of(page_links) == all_links_loop(page_links, <<>>)

\* if code >= 400 or code == 0: the HEAD response asks for a GET
head_asks_for_get(head) == head # <<>> /\ (head[1] >= 400 \/ head[1] = 0)

\* the requests sent for a link
requests_for(link, head) ==
    IF head_asks_for_get(head)
    THEN <<[method |-> "HEAD", url |-> link], [method |-> "GET", url |-> link]>>
    ELSE <<[method |-> "HEAD", url |-> link]>>

\* code at the test of line 559, <<>> when a request raised before it
code_of(head, get) == IF head = <<>> THEN <<>> ELSE IF head_asks_for_get(head) THEN get ELSE head

\* the frame at the call
check_links_frame(links) ==
    [links |-> links, checked |-> 0, ok |-> 0, broken |-> <<>>, over |-> links = <<>>, requests |-> <<>>]

\* a turn of the loop that never breaks on the number of broken links
check_link_without_cap(frame, link, head, get) ==
    [links |-> frame.links,
     checked |-> frame.checked + 1,
     ok |-> IF code_of(head, get) # <<>> /\ code_of(head, get)[1] < 400 THEN frame.ok + 1 ELSE frame.ok,
     broken |-> IF code_of(head, get) # <<>> /\ code_of(head, get)[1] < 400 THEN frame.broken
                ELSE Append(frame.broken, [url |-> link, status |-> code_of(head, get)]),
     over |-> frame.checked + 1 = Len(frame.links),
     requests |-> frame.requests \o requests_for(link, head)]

\* one turn of the loop over links, for the link link answering head and get
check_link(frame, link, head, get) ==
    [links |-> frame.links,
     checked |-> frame.checked + 1,
     ok |-> IF code_of(head, get) # <<>> /\ code_of(head, get)[1] < 400 THEN frame.ok + 1 ELSE frame.ok,
     broken |-> IF code_of(head, get) # <<>> /\ code_of(head, get)[1] < 400 THEN frame.broken
                ELSE Append(frame.broken, [url |-> link, status |-> code_of(head, get)]),
     over |-> \/ frame.checked + 1 = Len(frame.links)
              \/ ~(code_of(head, get) # <<>> /\ code_of(head, get)[1] < 400)
                    /\ Len(frame.broken) + 1 >= broken_links_cap,
     requests |-> frame.requests \o requests_for(link, head)]

\* the most links of the sites whose links answer HEAD and GET each in
\* their own way
MaxShortLinks == 2

\* the most sampled pages of the sites whose pages have
\* MAX_INTERNAL_LINKS_PER_PAGE links each
MaxLinkPages == 19

Link(i) == BaseUrl \o "/l" \o ToString(i)

HeadOutcomes == { <<>>, <<200>>, <<404>>, <<405>> }

GetOutcomes == { <<>>, <<200>>, <<404>> }

\* the links of the sampled pages: none, the same link twice on a page or
\* on two pages, pages of distinct links, pages with the same links
ShortPageLinks ==
    { <<lns>> : lns \in SeqsUpTo({Link(i) : i \in 1..MaxShortLinks}, MaxShortLinks) }
        \cup { <<>>, << <<Link(1)>>, <<Link(1), Link(2)>> >>, << <<>>, <<Link(2)>>, <<Link(1)>> >> }

FullPage(p) == [i \in 1..MAX_INTERNAL_LINKS_PER_PAGE |-> Link((p - 1) * MAX_INTERNAL_LINKS_PER_PAGE + i)]

LongPageLinks ==
    { [p \in 1..3 |-> FullPage(p)],
      [p \in 1..MaxLinkPages |-> FullPage(p)],
      [p \in 1..MaxLinkPages |-> FullPage(1)] }

EvenLinks == { Link(2 * i) : i \in 1..((MaxLinkPages * MAX_INTERNAL_LINKS_PER_PAGE) \div 2) }

\* every link answers alike, or every second link is broken
LongWebs(links) ==
    { [l \in links |-> [head |-> h, get |-> g]] : h \in HeadOutcomes, g \in GetOutcomes }
        \cup { [l \in links |-> IF l \in EvenLinks THEN [head |-> <<404>>, get |-> <<404>>]
                                 ELSE [head |-> <<200>>, get |-> <<200>>]],
               [l \in links |-> IF l \in EvenLinks THEN [head |-> <<>>, get |-> <<200>>]
                                 ELSE [head |-> <<405>>, get |-> <<200>>]] }

LinkSetups ==
    UNION { { [page_links |-> pl, web |-> w] :
                w \in [UNION {Range(pl[p]) : p \in 1..Len(pl)} -> [head : HeadOutcomes, get : GetOutcomes]] } :
            pl \in ShortPageLinks }
      \cup UNION { { [page_links |-> pl, web |-> w] :
                w \in LongWebs(UNION {Range(pl[p]) : p \in 1..Len(pl)}) } :
            pl \in LongPageLinks }

----------------------------------------------------------------------------
(* The state machine *)

Idle ==
    /\ args = <<>>
    /\ ret = <<>>
    /\ all_problems = <<>>
    /\ quick_wins = <<>>
    /\ critical_errors = <<>>
    /\ warnings = <<>>
    /\ outcome = <<>>
    /\ stack = <<>>

\* the names of the rules, in the order of the list `detectors`
RuleNames ==
    << "_detect_missing_h1", "_detect_duplicate_meta", "_detect_thin_content",
       "_detect_multiple_h1", "_detect_title_too_long", "_detect_missing_meta",
       "_detect_broken_links", "_detect_missing_title", "_detect_duplicate_titles",
       "_detect_missing_schema", "_detect_pages_with_errors" >>

\* one rule called on its own
call_rule(rule, ps, broken) ==
    CASE rule = "_detect_missing_h1" -> _detect_missing_h1(ps)
      [] rule = "_detect_duplicate_meta" -> _detect_duplicate_meta(ps)
      [] rule = "_detect_thin_content" ->
             _detect_thin_content(ps, default_thin_content_threshold)
      [] rule = "_detect_multiple_h1" -> _detect_multiple_h1(ps)
      [] rule = "_detect_title_too_long" -> _detect_title_too_long(ps)
      [] rule = "_detect_missing_meta" -> _detect_missing_meta(ps)
      [] rule = "_detect_broken_links" -> _detect_broken_links(broken)
      [] rule = "_detect_missing_title" -> _detect_missing_title(ps)
      [] rule = "_detect_duplicate_titles" -> _detect_duplicate_titles(ps)
      [] rule = "_detect_missing_schema" -> _detect_missing_schema(ps)
      [] rule = "_detect_pages_with_errors" -> _detect_pages_with_errors(ps)

\* the crawl data of one audit
Init ==
    /\ pages \in SeqsUpTo(PagePool, MaxPages)
    /\ broken_link_examples \in SeqsUpTo(BrokenPool, MaxBroken)
    /\ pc = "input"
    /\ Idle

\* the crawl data of an audit some of whose requests failed
InitFlagged ==
    /\ pages \in SeqsUpTo(FlaggedPool, MaxFlaggedPages)
    /\ broken_link_examples = <<>>
    /\ pc = "input"
    /\ Idle

\* page lists for _detect_duplicate_titles
InitTitles ==
    /\ pages \in SeqsUpTo(TitlePool, MaxTitlePages)
    /\ broken_link_examples = <<>>
    /\ pc = "input"
    /\ Idle

\* page lists for _detect_missing_schema
InitSchema ==
    /\ \E n \in 0..MaxSchemaPages :
           \E kinds \in [1..n -> SchemaKinds] :
               pages = [i \in 1..n |-> SchemaPage(kinds[i], i)]
    /\ broken_link_examples = <<>>
    /\ pc = "input"
    /\ Idle

\* a triple a caller hands to validate_results
InitValidator ==
    /\ pages = <<>>
    /\ broken_link_examples = <<>>
    /\ pc = "detected"
    /\ args = <<>>
    /\ ret = <<>>
    /\ all_problems = <<>>
    /\ quick_wins \in SeqsUpTo(ValidatorPool, MaxQuickWins)
    /\ critical_errors \in SeqsUpTo(ValidatorPool, MaxCritical)
    /\ warnings \in SeqsUpTo(ValidatorPool, MaxWarnings)
    /\ outcome = <<>>
    /\ stack = <<>>

\* a triple a caller hands to validate_results, faults included
InitFaulty ==
    /\ pages = <<>>
    /\ broken_link_examples = <<>>
    /\ pc = "detected"
    /\ args = <<>>
    /\ ret = <<>>
    /\ all_problems = <<>>
    /\ quick_wins \in SeqsUpTo(FaultyPool, MaxQuickWins)
    /\ critical_errors \in SeqsUpTo(FaultyPool, MaxCritical)
    /\ warnings \in SeqsUpTo(FaultyPool, MaxWarnings)
    /\ outcome = <<>>
    /\ stack = <<>>

\* a string a caller hands to normalize_domain
InitDomain ==
    /\ pages = <<>>
    /\ broken_link_examples = <<>>
    /\ pc = "input"
    /\ args \in {[url_or_domain |-> d] : d \in DomainInputs \cup {None}}
    /\ ret = <<>>
    /\ all_problems = <<>>
    /\ quick_wins = <<>>
    /\ critical_errors = <<>>
    /\ warnings = <<>>
    /\ outcome = <<>>
    /\ stack = <<>>

\* the arguments a caller hands to pick_sample_urls
InitSample ==
    /\ pages = <<>>
    /\ broken_link_examples = <<>>
    /\ pc = "input"
    /\ args \in [urls : SeqsUpTo(DiscoveredPool, MaxDiscovered), homepage_url : HomepagePool, max_pages : (1..MaxSamplePages) \cup {MAX_PAGES_BASIC}]
    /\ ret = <<>>
    /\ all_problems = <<>>
    /\ quick_wins = <<>>
    /\ critical_errors = <<>>
    /\ warnings = <<>>
    /\ outcome = <<>>
    /\ stack = <<>>

\* the sitemap index a caller hands to fetch_sitemap_urls, and max_urls
InitSitemap ==
    /\ pages = <<>>
    /\ broken_link_examples = <<>>
    /\ pc = "input"
    /\ args \in [sitemap : {SitemapIndex(c) : c \in SeqsUpTo(ChildPool, MaxChildren)} \cup {WideIndex}, max_urls : (1..MaxUrlsCap) \cup {default_max_urls}]
    /\ ret = <<>>
    /\ all_problems = <<>>
    /\ quick_wins = <<>>
    /\ critical_errors = <<>>
    /\ warnings = <<>>
    /\ outcome = <<>>
    /\ stack = <<>>

\* sites: sitemap.xml, post-sitemap.xml and custom.xml serve no URL, fewer
\* than MAX_PAGES_BASIC or more, the other sitemaps none
AuditSitePool ==
    { site \in [SitemapNames -> {0, 3, MAX_PAGES_BASIC + 1}] :
        /\ site[BaseUrl \o "/sitemap-index.xml"] = 0
        /\ site[BaseUrl \o "/news-sitemap.xml"] = 0 }

\* the same-domain links of the homepage (sample_internal_links of its
\* page record)
HomepageLinksPool ==
    { <<>>, <<BaseUrl \o "/about">>, <<BaseUrl \o "/about", BaseUrl \o "/blog/post">> }

\* a site an audit is run on, up to the sampled pages
InitAudit ==
    /\ pages = <<>>
    /\ broken_link_examples = <<>>
    /\ pc = "input"
    /\ args \in [base_url : {BaseUrl}, listed : SeqsUpTo(SitemapNames, MaxListed),
                 site : AuditSitePool, homepage_links : HomepageLinksPool]
    /\ ret = <<>>
    /\ all_problems = <<>>
    /\ quick_wins = <<>>
    /\ critical_errors = <<>>
    /\ warnings = <<>>
    /\ outcome = <<>>
    /\ stack = <<>>

\* a site an audit is run on
InitResolve ==
    /\ pages = <<>>
    /\ broken_link_examples = <<>>
    /\ pc = "input"
    /\ args \in [base_url : {BaseUrl}, listed : SeqsUpTo(SitemapNames, MaxListed), site : SitePool]
    /\ ret = <<>>
    /\ all_problems = <<>>
    /\ quick_wins = <<>>
    /\ critical_errors = <<>>
    /\ warnings = <<>>
    /\ outcome = <<>>
    /\ stack = <<>>

\* a click on "Generate Audit" with a URL entered: the audit type chosen,
\* and what the crawl, the homepage snapshot, the model and the template
\* files will turn out to be
InitRun ==
    /\ pages = <<>>
    /\ broken_link_examples = <<>>
    /\ pc = "step 1"
    /\ args \in [audit_type : {"Basic", "Full"}, crawl_raises : BOOLEAN, snapshot_error : BOOLEAN, raw_text : {"", "## Findings", "{}"}, docx_template_exists : BOOLEAN, xlsx_template_exists : BOOLEAN]
    /\ ret = <<>>
    /\ all_problems = <<>>
    /\ quick_wins = <<>>
    /\ critical_errors = <<>>
    /\ warnings = <<>>
    /\ outcome = <<>>
    /\ stack = <<>>

\* the sampled pages' links and what each link answers
InitLinks ==
    /\ pages = <<>>
    /\ broken_link_examples = <<>>
    /\ pc = "input"
    /\ args \in LinkSetups
    /\ ret = <<>>
    /\ all_problems = <<>>
    /\ quick_wins = <<>>
    /\ critical_errors = <<>>
    /\ warnings = <<>>
    /\ outcome = <<>>
    /\ stack = <<>>

\* a site, and the call fetch_sitemap_urls(sitemap.xml, headers, max_urls)
InitWeb ==
    /\ pages = <<>>
    /\ broken_link_examples = <<>>
    /\ pc = "input"
    /\ args \in [web : WebPool, sitemap_url : {BaseUrl \o "/sitemap.xml"}, max_urls : {2, default_max_urls}]
    /\ ret = <<>>
    /\ all_problems = <<>>
    /\ quick_wins = <<>>
    /\ critical_errors = <<>>
    /\ warnings = <<>>
    /\ outcome = <<>>
    /\ stack = <<>>

\* problem = detect_fn(), for one rule of the list
CallRule(rule) ==
    /\ pc = "input"
    /\ ret' = <<[rule |-> rule, value |-> call_rule(rule, pages, broken_link_examples)]>>
    /\ UNCHANGED <<pages, broken_link_examples, pc, all_problems,
                   quick_wins, critical_errors, warnings, outcome, args, stack>>

CallAnyRule == \E i \in 1..Len(RuleNames) : CallRule(RuleNames[i])

CallDuplicateTitles == CallRule("_detect_duplicate_titles")

CallMissingSchema == CallRule("_detect_missing_schema")

\* detect_problems(pages, broken_link_examples)
DetectProblems ==
    /\ pc = "input"
    /\ \E result \in {detect_problems(pages, broken_link_examples,
                                      default_thin_content_threshold)} :
           /\ all_problems' = result.all_problems
           /\ quick_wins' = result.quick_wins
           /\ critical_errors' = result.critical_errors
           /\ warnings' = result.warnings
    /\ pc' = "detected"
    /\ UNCHANGED <<pages, broken_link_examples, ret, outcome, args, stack>>

\* validate_results(quick_wins, critical_errors, warnings)
ValidateResults ==
    /\ pc = "detected"
    /\ outcome' = <<validate_results(quick_wins, critical_errors, warnings)>>
    /\ pc' = "validated"
    /\ UNCHANGED <<pages, broken_link_examples, ret, all_problems,
                   quick_wins, critical_errors, warnings, args, stack>>

\* normalize_domain(url_or_domain)
CallNormalizeDomain ==
    /\ pc = "input"
    /\ ret' = <<[rule |-> "normalize_domain", value |-> normalize_domain(args.url_or_domain)]>>
    /\ pc' = "returned"
    /\ UNCHANGED <<pages, broken_link_examples, all_problems,
                   quick_wins, critical_errors, warnings, outcome, args, stack>>

\* pick_sample_urls(urls, homepage_url, max_pages)
CallPickSampleUrls ==
    /\ pc = "input"
    /\ ret' = <<[rule |-> "pick_sample_urls", value |-> pick_sample_urls(args.urls, args.homepage_url, args.max_pages)]>>
    /\ pc' = "returned"
    /\ UNCHANGED <<pages, broken_link_examples, all_problems,
                   quick_wins, critical_errors, warnings, outcome, args, stack>>

\* fetch_sitemap_urls(sitemap_url, headers, max_urls)
CallFetchSitemapUrls ==
    /\ pc = "input"
    /\ ret' = <<[rule |-> "fetch_sitemap_urls", value |-> fetch_sitemap_urls(args.sitemap, args.max_urls)]>>
    /\ pc' = "returned"
    /\ UNCHANGED <<pages, broken_link_examples, all_problems,
                   quick_wins, critical_errors, warnings, outcome, args, stack>>

\* basic_real_audit, from the robots.txt fetch to the adopted sitemap
ResolveSitemaps ==
    /\ pc = "input"
    /\ ret' = <<[rule |-> "resolve_sitemaps", value |-> resolve_sitemaps(args.base_url, args.listed, args.site)]>>
    /\ pc' = "returned"
    /\ UNCHANGED <<pages, broken_link_examples, all_problems,
                   quick_wins, critical_errors, warnings, outcome, args, stack>>

\* basic_real_audit(url_input), from the robots.txt fetch to the sampled pages
BasicRealAudit ==
    /\ pc = "input"
    /\ ret' = <<[rule |-> "basic_real_audit", value |-> basic_real_audit(args.base_url, args.listed, args.site)]>>
    /\ pc' = "returned"
    /\ UNCHANGED <<pages, broken_link_examples, all_problems,
                   quick_wins, critical_errors, warnings, outcome, args, stack>>

\* what every step of a run leaves alone: the run calls neither
\* detect_problems nor validate_results
RunUnchanged ==
    UNCHANGED <<pages, broken_link_examples, all_problems,
                quick_wins, critical_errors, warnings, outcome, args, stack>>

\* Step 1: basic_real_audit and analyze_basic_site; an exception of the
\* crawl and an error of the snapshot end the run with st.error and st.stop
AnalyzeSite ==
    /\ pc = "step 1"
    /\ IF args.audit_type = "Basic" /\ args.crawl_raises
       THEN pc' = "stopped" /\ ret' = <<[rule |-> "st.error", value |-> "Basic audit crawl failed"]>>
       ELSE IF args.snapshot_error
       THEN pc' = "stopped" /\ ret' = <<[rule |-> "st.error", value |-> "Error"]>>
       ELSE pc' = "step 3" /\ ret' = ret
    /\ RunUnchanged

\* Step 3: audit_content from the text the model returns (Step 2, the
\* Ahrefs data of a Full audit, decides nothing here)
GenerateContent ==
    /\ pc = "step 3"
    /\ ret' = <<[rule |-> "audit_content", value |-> args.raw_text]>>
    /\ pc' = "step 4"
    /\ RunUnchanged

\* Step 4: the documents; a Full audit stops when a template file is missing
CreateDocuments ==
    /\ pc = "step 4"
    /\ IF args.audit_type = "Full" /\ ~args.docx_template_exists
       THEN pc' = "stopped" /\ ret' = <<[rule |-> "st.error", value |-> "Missing Word template"]>>
       ELSE IF args.audit_type = "Full" /\ ~args.xlsx_template_exists
       THEN pc' = "stopped" /\ ret' = <<[rule |-> "st.error", value |-> "Missing Excel template"]>>
       ELSE pc' = "results" /\ ret' = ret
    /\ RunUnchanged

\* Results: st.markdown(audit_content) in the Preview tab
RenderPreview ==
    /\ pc = "results"
    /\ pc' = "rendered"
    /\ ret' = ret
    /\ RunUnchanged

\* Results: the st.download_button of the Download tab
OfferDownload ==
    /\ pc = "rendered"
    /\ pc' = "exported"
    /\ ret' = ret
    /\ RunUnchanged

NextRun == AnalyzeSite \/ GenerateContent \/ CreateDocuments \/ RenderPreview \/ OfferDownload

\* what the steps of fetch_sitemap_urls leave alone
FetchUnchanged ==
    UNCHANGED <<pages, broken_link_examples, all_problems,
                quick_wins, critical_errors, warnings, outcome, args>>

\* the caller's call of fetch_sitemap_urls
EnterFetch ==
    /\ pc = "input"
    /\ stack' = <<frame_of(args.web, args.sitemap_url)>>
    /\ pc' = "fetching"
    /\ ret' = ret
    /\ FetchUnchanged

\* child = fetch_sitemap_urls(sm, ...): the loop of the call on top of the
\* stack calls the function for its next child
FetchChild ==
    /\ pc = "fetching"
    /\ Len(stack) < MaxDepth
    /\ stack[Len(stack)].todo # <<>>
    /\ stack' = Append([stack EXCEPT ![Len(stack)].todo = Tail(@)],
                       frame_of(args.web, Head(stack[Len(stack)].todo)))
    /\ UNCHANGED <<pc, ret>>
    /\ FetchUnchanged

\* return deduped[:max_urls]: the call on top of the stack is over; its
\* caller extends all_urls and tests the break
ReturnFetch ==
    /\ pc = "fetching"
    /\ stack[Len(stack)].todo = <<>>
    /\ IF Len(stack) = 1
       THEN /\ ret' = <<[rule |-> "fetch_sitemap_urls", value |-> result_of(stack[1], args.max_urls)]>>
            /\ stack' = <<>>
            /\ pc' = "returned"
       ELSE /\ stack' = [SubSeq(stack, 1, Len(stack) - 1) EXCEPT ![Len(stack) - 1] =
                            extended_by(@, result_of(stack[Len(stack)], args.max_urls), args.max_urls)]
            /\ UNCHANGED <<pc, ret>>
    /\ FetchUnchanged

NextFetch == EnterFetch \/ FetchChild \/ ReturnFetch

\* ok_count, broken_examples = check_links_for_broken(all_links, ...): the
\* pool is built and the function entered
CallCheckLinks ==
    /\ pc = "input"
    /\ stack' = <<check_links_frame(all_links_of(args.page_links))>>
    /\ pc' = "checking"
    /\ ret' = ret
    /\ FetchUnchanged

\* one turn of for link in links
CheckLink ==
    /\ pc = "checking"
    /\ ~stack[1].over
    /\ stack' = <<check_link(stack[1], stack[1].links[stack[1].checked + 1],
                             args.web[stack[1].links[stack[1].checked + 1]].head,
                             args.web[stack[1].links[stack[1].checked + 1]].get)>>
    /\ UNCHANGED <<pc, ret>>
    /\ FetchUnchanged

\* return ok, broken
ReturnCheckLinks ==
    /\ pc = "checking"
    /\ stack[1].over
    /\ ret' = <<[rule |-> "check_links_for_broken",
                 value |-> [ok_count |-> stack[1].ok, broken |-> stack[1].broken]]>>
    /\ stack' = <<>>
    /\ pc' = "returned"
    /\ FetchUnchanged

NextLinks == CallCheckLinks \/ CheckLink \/ ReturnCheckLinks

Next == DetectProblems \/ ValidateResults

\* an audit: the detector on crawl data, then the validator on its result
Spec == Init /\ [][Next]_vars

\* the rules, each called on its own on the crawl data
SpecRules == Init /\ [][CallAnyRule]_vars

\* each rule called on its own, on crawls with flagged records
SpecFlagged == InitFlagged /\ [][CallAnyRule]_vars

SpecTitles == InitTitles /\ [][CallDuplicateTitles]_vars

SpecSchema == InitSchema /\ [][CallMissingSchema]_vars

\* validate_results on the triples of a caller
SpecValidator == InitValidator /\ [][ValidateResults]_vars

\* validate_results on triples with faults
SpecFaulty == InitFaulty /\ [][ValidateResults]_vars

\* normalize_domain on raw URLs and bare domains
SpecDomain == InitDomain /\ [][CallNormalizeDomain]_vars

\* pick_sample_urls on discovered URLs
SpecSample == InitSample /\ [][CallPickSampleUrls]_vars

\* fetch_sitemap_urls on sitemap indexes
SpecSitemap == InitSitemap /\ [][CallFetchSitemapUrls]_vars

\* the sitemap resolution of basic_real_audit on sites
SpecResolve == InitResolve /\ [][ResolveSitemaps]_vars

\* fetch_sitemap_urls, call by call, on sites whose indexes name their children
SpecWeb == InitWeb /\ [][NextFetch]_vars

\* the link pool and check_links_for_broken, link by link
SpecLinks == InitLinks /\ [][NextLinks]_vars

\* a run of the audit flow, from the click to the downloads
SpecRun == InitRun /\ [][NextRun]_vars

\* basic_real_audit on sites, up to the sampled pages
SpecAudit == InitAudit /\ [][BasicRealAudit]_vars

----------------------------------------------------------------------------
(* Properties of the detector and the validator *)

\* all_detailed = critical_errors + warnings
Detailed == critical_errors \o warnings

\* the URLs the input holds: of the pages and of the broken-link records
C5_InputUrls ==
    {pages[i].url : i \in 1..Len(pages)}
        \cup {pages[i].final_url : i \in 1..Len(pages)}
        \cup {broken_link_examples[i].url : i \in 1..Len(broken_link_examples)}

\* C1: in every audit, validate_results called on the quick_wins,
\* critical_errors and warnings that detect_problems returned raises no
\* ValueError (it returns True).
C1_DetectorOutputValidates ==
    pc = "validated" => outcome[1].raised = None

C1_Witness ==
    /\ pc = "validated"
    /\ outcome[1].raised = None
    /\ Len(quick_wins) = 5
    /\ warnings # <<>>
    /\ \E i \in 1..Len(critical_errors) : Len(critical_errors[i].urls) > 1

\* C2: a rule called on its own returns None or a Problem whose urls list is
\* not empty.
C2_RulesReturnNoEmptyUrlList ==
    ret # <<>> => (ret[1].value = <<>> \/ ret[1].value[1].urls # <<>>)

\* impact / effort (or impact alone when effort <= 0) of a is above that of b
C3_Above(a, b) ==
    LET num(p) == IF p.effort_hours <= 0 THEN p.impact_score ELSE p.impact_score * 10
        den(p) == IF p.effort_hours <= 0 THEN 1 ELSE p.effort_hours
    IN  num(a) * den(b) > num(b) * den(a)

\* the place of the i-th detected Problem in the ranking: behind the Problems
\* that score more and behind those of its score that a rule earlier in the
\* list detected
C3_Rank(i) ==
    1 + Cardinality({j \in 1..Len(all_problems) :
                        \/ C3_Above(all_problems[j], all_problems[i])
                        \/ /\ ~C3_Above(all_problems[i], all_problems[j])
                           /\ j < i})

\* C3: quick_wins holds min(5, n) Problems, and the detected Problem of rank
\* r <= 5 (by priority score descending, equal scores in rule order) is
\* quick_wins[r].
C3_QuickWinsAreTopFive ==
    pc = "detected" =>
        /\ Len(quick_wins) = IF Len(all_problems) < 5 THEN Len(all_problems) ELSE 5
        /\ \A i \in 1..Len(all_problems) :
               C3_Rank(i) <= 5 => quick_wins[C3_Rank(i)] = all_problems[i]

C3_Witness ==
    /\ pc = "detected"
    /\ Len(all_problems) > 5
    /\ quick_wins # SubSeq(all_problems, 1, 5)
    /\ \E i, j \in 1..5 :
           /\ i < j
           /\ ~C3_Above(quick_wins[i], quick_wins[j])
           /\ ~C3_Above(quick_wins[j], quick_wins[i])

\* C4: each quick win has the title and the URL list of exactly one entry of
\* critical_errors + warnings.
C4_QuickWinsAreDetailedProblems ==
    pc = "detected" =>
        \A i \in 1..Len(quick_wins) :
            Cardinality({j \in 1..Len(Detailed) :
                            /\ Detailed[j].title = quick_wins[i].title
                            /\ Detailed[j].urls = quick_wins[i].urls}) = 1

C4_Witness ==
    /\ pc = "detected"
    /\ Len(quick_wins) = 5
    /\ Len(Detailed) > 5
    /\ \E i \in 1..5 : quick_wins[i].severity = "warning"
    /\ \E i \in 1..5 : quick_wins[i].severity = "critical"

\* a URL without its scheme and without a leading www.
C5_SchemeAndWwwStripped(u) ==
    LET at == {i \in 1..Len(u) - 2 : SubSeq(u, i, i + 2) = "://"}
        rest == IF at = {} THEN u ELSE SubSeq(u, SetMin(at) + 3, Len(u))
    IN  IF Len(rest) >= 4 /\ SubSeq(rest, 1, 4) = "www."
        THEN SubSeq(rest, 5, Len(rest))
        ELSE rest

RECURSIVE C5_WithoutSpaceAround(_)
C5_WithoutSpaceAround(s) ==
    IF s = "" THEN s
    ELSE IF SubSeq(s, 1, 1) \in Whitespace
    THEN C5_WithoutSpaceAround(SubSeq(s, 2, Len(s)))
    ELSE IF SubSeq(s, Len(s), Len(s)) \in Whitespace
    THEN C5_WithoutSpaceAround(SubSeq(s, 1, Len(s) - 1))
    ELSE s

\* s without the slashes at its end
RECURSIVE C5_WithoutSlashesAtEnd(_)
C5_WithoutSlashesAtEnd(s) ==
    IF s # "" /\ SubSeq(s, Len(s), Len(s)) = "/"
    THEN C5_WithoutSlashesAtEnd(SubSeq(s, 1, Len(s) - 1))
    ELSE s

\* s with each www. that follows a :// taken out, from left to right
RECURSIVE C5_WithoutWww(_)
C5_WithoutWww(s) ==
    IF Len(s) < 7 THEN s
    ELSE IF SubSeq(s, 1, 7) = "://www." THEN "://" \o C5_WithoutWww(SubSeq(s, 8, Len(s)))
    ELSE SubSeq(s, 1, 1) \o C5_WithoutWww(SubSeq(s, 2, Len(s)))

\* the URL-level normalization: scheme and path are kept
C5_Normalized(u) ==
    IF u = None THEN ""
    ELSE C5_WithoutWww(C5_WithoutSlashesAtEnd(C5_WithoutSpaceAround(u)))

C6_SeverityPartition ==
    pc = "detected" =>
        /\ \A i \in 1..Len(all_problems) :
               LET p == all_problems[i]
                   in_critical == \E j \in 1..Len(critical_errors) : critical_errors[j] = p
                   in_warnings == \E j \in 1..Len(warnings) : warnings[j] = p
               IN  /\ in_critical <=> p.severity = "critical"
                   /\ in_warnings <=> p.severity = "warning"
                   /\ in_critical # in_warnings
        /\ Range(Detailed) = Range(all_problems)
        /\ Len(Detailed) = Len(all_problems)
        /\ \A i, j \in 1..Len(Detailed) : i # j => Detailed[i].title # Detailed[j].title

C6_Witness ==
    /\ pc = "detected"
    /\ Len(critical_errors) >= 4
    /\ Len(warnings) >= 3

C7_BrokenLinksFirst ==
    /\ \E j \in 1..Len(critical_errors) : critical_errors[j].title = "Broken Internal Links"
    /\ quick_wins # <<>>
    /\ quick_wins[1].title = "Broken Internal Links"

C8_Valid == {i \in 1..Len(pages) : pages[i].error \in {None, ""}}

C8_Lacking == {i \in C8_Valid : pages[i].jsonld_count \in {<<>>, <<0>>}}

C9_Sharing(titles) ==
    LET valid == {i \in 1..Len(pages) : pages[i].error \in {None, ""}}
    IN  {i \in valid : /\ titles[i] # ""
                       /\ \E j \in valid \ {i} : titles[j] = titles[i]}

\* the return value is one critical Problem with the normalized URLs of the
\* pages of `sharing`, or None when there is no such page
C9_ReturnsPagesOf(sharing) ==
    LET value == ret[1].value
        urls == {C5_Normalized(Or(pages[i].final_url, pages[i].url)) : i \in sharing} \ {""}
    IN  IF sharing = {}
        THEN value = <<>>
        ELSE /\ value # <<>>
             /\ value[1].severity = "critical"
             /\ Range(value[1].urls) = urls

\* the titles as the records hold them
C9_TitlesAsWritten ==
    [i \in 1..Len(pages) |-> IF pages[i].title = None THEN "" ELSE pages[i].title]

\* the titles without the whitespace around them
C9_TitlesStripped ==
    [i \in 1..Len(pages) |-> C5_WithoutSpaceAround(C9_TitlesAsWritten[i])]

C10_Matches(qw) == {j \in 1..Len(Detailed) : Detailed[j].title = qw.title}

\* C10 as stated: a quick win whose title does not match exactly one detailed
\* Problem, or whose URL set differs from that of the matched Problem, makes
\* validate_results raise ValueError.
C10_RaisesUnlessOneMatch ==
    pc = "validated" =>
        ((\E i \in 1..Len(quick_wins) :
              \/ Cardinality(C10_Matches(quick_wins[i])) # 1
              \/ \E j \in C10_Matches(quick_wins[i]) :
                     Range(Detailed[j].urls) # Range(quick_wins[i].urls))
            => outcome[1].raised = "ValueError")

\* C10, amended: a quick win whose title matches no detailed Problem, or
\* whose URL set differs from that of the last detailed Problem with its
\* title, makes validate_results raise ValueError.
C10_RaisesUnlessLastMatchAgrees ==
    pc = "validated" =>
        ((\E i \in 1..Len(quick_wins) :
              \/ C10_Matches(quick_wins[i]) = {}
              \/ Range(Detailed[SetMax(C10_Matches(quick_wins[i]))].urls)
                     # Range(quick_wins[i].urls))
            => outcome[1].raised = "ValueError")

C10_Witness ==
    /\ pc = "validated"
    /\ outcome[1].raised = "ValueError"
    /\ \E i \in 1..Len(quick_wins) :
           /\ Cardinality(C10_Matches(quick_wins[i])) = 2
           /\ Range(Detailed[SetMin(C10_Matches(quick_wins[i]))].urls)
                  = Range(quick_wins[i].urls)
           /\ Range(Detailed[SetMax(C10_Matches(quick_wins[i]))].urls)
                  # Range(quick_wins[i].urls)

\* the Problems validate_results checks: quick wins, critical errors, warnings
C11_Supplied == quick_wins \o critical_errors \o warnings

\* C11: a supplied Problem whose URL list has two entries that are equal after
\* URL normalization makes validate_results raise ValueError.
C11_RaisesOnNormalizedDuplicates ==
    pc = "validated" =>
        ((\E k \in 1..Len(C11_Supplied) :
              \E i, j \in 1..Len(C11_Supplied[k].urls) :
                  /\ i # j
                  /\ C5_Normalized(C11_Supplied[k].urls[i])
                         = C5_Normalized(C11_Supplied[k].urls[j]))
            => outcome[1].raised = "ValueError")

\* s starts with prefix
C12_StartsWith(s, prefix) ==
    Len(s) >= Len(prefix) /\ SubSeq(s, 1, Len(prefix)) = prefix

\* s holds a < and, somewhere behind it, a >
C12_TagLike(s) ==
    \E i \in 1..Len(s) :
        /\ SubSeq(s, i, i) = "<"
        /\ \E j \in (i + 1)..Len(s) : SubSeq(s, j, j) = ">"

\* s holds one of the entities
C12_Entity(s) ==
    \E e \in {"&lt;", "&gt;", "&amp;"} :
        \E i \in 1..(Len(s) - Len(e) + 1) : SubSeq(s, i, i + Len(e) - 1) = e

\* validate_results reports markup in the Problem q
C12_MarkupReported(q) ==
    \E n \in 1..Len(outcome[1].errors) :
        \/ C12_StartsWith(outcome[1].errors[n], "Possible HTML in '" \o q.title \o "'.")
        \/ C12_StartsWith(outcome[1].errors[n], "HTML entity in '" \o q.title \o "'.")

\* C12: validate_results reports markup in a Problem exactly when one of its
\* title, description, why_it_matters and how_to_fix holds a < followed later
\* by a >, or one of the entities &lt; &gt; &amp;.
C12_MarkupReportedIffTagOrEntity ==
    pc = "validated" =>
        \A k \in 1..Len(C11_Supplied) :
            LET q == C11_Supplied[k]
            IN  C12_MarkupReported(q)
                    <=> \E f \in {q.title, q.description, q.why_it_matters, q.how_to_fix} :
                            C12_TagLike(f) \/ C12_Entity(f)

\* s holds a phrase of the denylist
C13_Denylisted(s) ==
    \E n \in 1..Len(forbidden_phrases) :
        \E i \in 1..(Len(s) - Len(forbidden_phrases[n]) + 1) :
            SubSeq(s, i, i + Len(forbidden_phrases[n]) - 1) = forbidden_phrases[n]

\* one of the three free-text fields of q holds a phrase of the denylist
C13_FieldDenylisted(q) ==
    \E f \in {q.description, q.why_it_matters, q.how_to_fix} : C13_Denylisted(f)

\* C13: validate_results raises ValueError when a free-text field of a
\* supplied Problem holds a phrase of the denylist, and reports a denylist
\* violation for a Problem only when one of its free-text fields holds one.
C13_DenylistReportedIffInField ==
    pc = "validated" =>
        \A k \in 1..Len(C11_Supplied) :
            LET q == C11_Supplied[k]
            IN  /\ C13_FieldDenylisted(q) => outcome[1].raised = "ValueError"
                /\ (\E n \in 1..Len(outcome[1].errors) :
                        C12_StartsWith(outcome[1].errors[n],
                                       "Forbidden text in '" \o q.title \o "'"))
                       => C13_FieldDenylisted(q)

\* 1 when b holds, 0 otherwise
C14_Count(b) == IF b THEN 1 ELSE 0

\* the sum of f[1] .. f[n]
RECURSIVE C14_Sum(_, _)
C14_Sum(f, n) == IF n = 0 THEN 0 ELSE f[n] + C14_Sum(f, n - 1)

\* the quick win qw has no detailed Problem of its title, or the last one of
\* its title lists other URLs
C14_QuickWinViolations(qw) ==
    C14_Count(\/ C10_Matches(qw) = {}
              \/ Range(Detailed[SetMax(C10_Matches(qw))].urls) # Range(qw.urls))

\* what check 2 finds in one field: a < together with a >, and an entity
C14_FieldViolations(f) ==
    C14_Count(In("<", f) /\ In(">", f)) + C14_Count(C12_Entity(f))

\* what checks 2, 3 and 4 find in the Problem q
C14_ProblemViolations(q) ==
    C14_FieldViolations(q.title) + C14_FieldViolations(q.description)
        + C14_FieldViolations(q.why_it_matters) + C14_FieldViolations(q.how_to_fix)
        + C14_Count(\E i, j \in 1..Len(q.urls) : i # j /\ q.urls[i] = q.urls[j])
        + Cardinality({n \in 1..Len(forbidden_phrases) :
              In(forbidden_phrases[n],
                 q.description \o " " \o q.why_it_matters \o " " \o q.how_to_fix)})

\* C14_ProblemViolations of the Problems of the pools, counted once
C14_PoolViolations == [q \in FaultyPool \cup ValidatorPool |-> C14_ProblemViolations(q)]

\* the violations of a triple, over its quick wins and over every Problem
C14_Violations ==
    C14_Sum([i \in 1..Len(quick_wins) |-> C14_QuickWinViolations(quick_wins[i])],
            Len(quick_wins))
        + C14_Sum([k \in 1..Len(C11_Supplied) |->
                      IF C11_Supplied[k] \in DOMAIN C14_PoolViolations
                      THEN C14_PoolViolations[C11_Supplied[k]]
                      ELSE C14_ProblemViolations(C11_Supplied[k])],
                  Len(C11_Supplied))

\* the message is its heading followed by one line for each entry of lines
C14_ListsEach(msg, lines) ==
    LET heading == "VALIDATION FAILED:"
        start(n) == Len(heading)
                        + C14_Sum([m \in 1..Len(lines) |-> 5 + Len(lines[m])], n - 1)
    IN  /\ Len(msg) = start(Len(lines) + 1)
        /\ SubSeq(msg, 1, Len(heading)) = heading
        /\ \A n \in 1..Len(lines) :
               SubSeq(msg, start(n) + 1, start(n + 1)) = "\n  * " \o lines[n]

C15_Returned == pc = "returned" /\ ret # <<>> /\ ret[1].rule = "normalize_domain"

C15_HostOnly(r) ==
    /\ r = lower(r)
    /\ ~In("://", r)
    /\ ~startswith(r, "www.")
    /\ ~In(":", r)
    /\ ~In("/", r)
    /\ ~In("?", r)

C15_LowercaseHostOnly ==
    C15_Returned =>
        /\ C15_HostOnly(ret[1].value)
        /\ (args.url_or_domain = "HTTPS://WWW.Example.com:443/x" => ret[1].value = "example.com")
        /\ (strip(Or(args.url_or_domain, "")) = "" => ret[1].value = "")

(***************************************************************************)
(* C16: normalize_domain is idempotent: normalizing what it returned       *)
(* returns the same string.                                                *)
(***************************************************************************)
C16_Idempotent ==
    C15_Returned => normalize_domain(ret[1].value) = ret[1].value

(***************************************************************************)
(* C17: for every discovered-URL list, homepage URL and max_pages,         *)
(* pick_sample_urls returns at most max_pages URLs, and when a homepage    *)
(* URL is supplied the homepage is the first element of the result.        *)
(***************************************************************************)
C17_Returned == pc = "returned" /\ ret # <<>> /\ ret[1].rule = "pick_sample_urls"

C18_FirstSegment(u) ==
    LET after_scheme == SubSeq(u, find(u, "://") + 3, Len(u))
        stops == {i \in 1..Len(after_scheme) : SubSeq(after_scheme, i, i) \in {"?", "#"}}
        upto == IF stops = {} THEN Len(after_scheme) ELSE SetMin(stops) - 1
        inside == {i \in 1..upto : SubSeq(after_scheme, i, i) # "/"
                                   /\ \E j \in 1..(i - 1) : SubSeq(after_scheme, j, j) = "/"}
    IN  IF inside = {} THEN ""
        ELSE LET first == SetMin(inside)
                 run == {k \in first..upto : \A i \in first..k : SubSeq(after_scheme, i, i) # "/"}
             IN  SubSeq(after_scheme, first, SetMax(run))

\* the discovered URLs: the absolute ones of the list
C18_Discovered == SelectSeq(args.urls, LAMBDA u : In("://", u))

\* xs without the elements that repeat an earlier one
RECURSIVE C18_EachOnce(_)
C18_EachOnce(xs) ==
    IF xs = <<>> THEN <<>>
    ELSE <<Head(xs)>> \o C18_EachOnce(SelectSeq(Tail(xs), LAMBDA x : x # Head(xs)))

\* the first-discovered URL of each bucket, buckets in order of appearance
RECURSIVE C18_Representatives(_)
C18_Representatives(urls) ==
    IF urls = <<>> THEN <<>>
    ELSE <<Head(urls)>> \o C18_Representatives(SelectSeq(Tail(urls),
             LAMBDA u : C18_FirstSegment(u) # C18_FirstSegment(Head(urls))))

C18_Buckets == {C18_FirstSegment(C18_Discovered[i]) : i \in 1..Len(C18_Discovered)}

C18_Expected ==
    Prefix(C18_EachOnce((IF args.homepage_url # "" THEN <<args.homepage_url>> ELSE <<>>)
                            \o C18_Representatives(C18_Discovered) \o C18_Discovered),
           args.max_pages)

C18_HomepageThenBucketsThenRest ==
    C17_Returned =>
        /\ ret[1].value = C18_Expected
        /\ (Cardinality(C18_Buckets) + 1 <= args.max_pages =>
                \A b \in C18_Buckets :
                    \E i \in 1..Len(ret[1].value) :
                        /\ ret[1].value[i] \in Range(C18_Discovered)
                        /\ C18_FirstSegment(ret[1].value[i]) = b)

\* the homepage, then a URL of each of two buckets, then a second URL of the
\* first bucket, out of a list that repeats a URL
C18_Witness ==
    /\ C17_Returned
    /\ args.homepage_url # ""
    /\ Len(ret[1].value) = 4
    /\ C18_FirstSegment(ret[1].value[2]) # C18_FirstSegment(ret[1].value[3])
    /\ C18_FirstSegment(ret[1].value[2]) = C18_FirstSegment(ret[1].value[4])
    /\ args.urls[1] = ret[1].value[2]
    /\ args.urls[2] = ret[1].value[4]
    /\ Len(C18_Discovered) > Cardinality(Range(C18_Discovered))

(***************************************************************************)
(* C19: for a sitemap index whose child sitemaps together contain N unique *)
(* page URLs, fetch_sitemap_urls returns exactly those N URLs, without     *)
(* duplicates, when N <= max_urls, and exactly max_urls URLs when          *)
(* N > max_urls, for every number of children and every overlap between    *)
(* the children's URL lists.                                               *)
(***************************************************************************)
C19_Returned == pc = "returned" /\ ret # <<>> /\ ret[1].rule = "fetch_sitemap_urls"

\* the page URLs a document and the documents below it contain
RECURSIVE C19_PageUrls(_)
C19_PageUrls(doc) ==
    Range(doc.urls) \cup UNION {C19_PageUrls(doc.sitemaps[i]) : i \in 1..Len(doc.sitemaps)}

C19_AllUniqueUrlsUpToMaxUrls ==
    C19_Returned =>
        LET unique == C19_PageUrls(args.sitemap)
            result == ret[1].value
        IN  /\ Cardinality(Range(result)) = Len(result)
            /\ Range(result) \subseteq unique
            /\ Len(result) = IF Cardinality(unique) <= args.max_urls
                             THEN Cardinality(unique) ELSE args.max_urls

(***************************************************************************)
(* C20: sitemap resolution adopts the first candidate, in priority order   *)
(* (index and sitemap.xml-style names, then content sitemaps, then news,   *)
(* video and image sitemaps, then unknown names), that yields at least 20  *)
(* URLs; if no candidate reaches 20 it adopts the first candidate in       *)
(* priority order that yielded any URL.  With sitemap.xml (40 URLs) and    *)
(* news-sitemap.xml (500 URLs) both listed, in either order, the adopted   *)
(* URLs are those of sitemap.xml.                                          *)
(***************************************************************************)
C20_Returned == pc = "returned" /\ ret # <<>> /\ ret[1].rule = "resolve_sitemaps"

C20_Priority(sm) ==
    CASE sm \in {BaseUrl \o "/sitemap.xml", BaseUrl \o "/sitemap_index.xml", BaseUrl \o "/sitemap-index.xml"} -> 0
      [] sm = BaseUrl \o "/post-sitemap.xml" -> 1
      [] sm = BaseUrl \o "/news-sitemap.xml" -> 2
      [] OTHER -> 3

C20_Candidates == candidate_sitemaps(args.base_url, args.listed)

\* candidate i comes before candidate j in priority order
C20_Before(i, j) ==
    \/ C20_Priority(C20_Candidates[i]) < C20_Priority(C20_Candidates[j])
    \/ C20_Priority(C20_Candidates[i]) = C20_Priority(C20_Candidates[j]) /\ i < j

C20_Yield(i) == IF C20_Candidates[i] \in DOMAIN args.site THEN args.site[C20_Candidates[i]] ELSE 0

\* the candidates that may be adopted: those yielding 20 URLs, or those
\* yielding any when none yields 20
C20_Eligible ==
    LET useful == {i \in 1..Len(C20_Candidates) : C20_Yield(i) >= 20}
    IN  IF useful # {} THEN useful ELSE {i \in 1..Len(C20_Candidates) : C20_Yield(i) > 0}

C20_AdoptsFirstInPriorityOrder ==
    C20_Returned =>
        /\ \A i \in C20_Eligible :
               (\A j \in C20_Eligible : j = i \/ C20_Before(i, j))
                   => ret[1].value.used_sitemap = C20_Candidates[i]
        /\ (C20_Eligible = {} => ret[1].value.used_sitemap = None)
        /\ ({BaseUrl \o "/sitemap.xml", BaseUrl \o "/news-sitemap.xml"} \subseteq Range(args.listed)
                /\ args.site[BaseUrl \o "/sitemap.xml"] = 40
                /\ args.site[BaseUrl \o "/news-sitemap.xml"] = 500
            => ret[1].value.discovered_urls
                   = fetch_sitemap_urls(served(args.site, BaseUrl \o "/sitemap.xml"), default_max_urls))

(***************************************************************************)
(* C21: in every context returned by basic_real_audit, urls_analyzed is at *)
(* most urls_discovered, whatever the sitemap holds (sitemaps with fewer   *)
(* URLs than max_pages and sitemaps that do not list the homepage          *)
(* included).                                                              *)
(***************************************************************************)
C21_Returned == pc = "returned" /\ ret # <<>> /\ ret[1].rule = "basic_real_audit"

C21_AnalyzedAtMostDiscovered ==
    C21_Returned => ret[1].value.urls_analyzed <= ret[1].value.urls_discovered

(***************************************************************************)
(* C22: in every audit run, findings are rendered or exported only after   *)
(* validate_results has returned True for the run's (quick_wins,           *)
(* critical_errors, warnings); if validation fails the run ends with the   *)
(* aggregated validation error and nothing is rendered or exported.        *)
(***************************************************************************)
C22_Validated == outcome # <<>> /\ outcome[1].raised = None

C22_RenderedOnlyAfterValidation ==
    /\ pc \in {"rendered", "exported"} => C22_Validated
    /\ (outcome # <<>> /\ outcome[1].raised = "ValueError") => pc \notin {"rendered", "exported"}

(***************************************************************************)
(* C23: sitemap resolution makes a bounded number of fetches and           *)
(* terminates for every sitemap graph the site serves, sitemap indexes     *)
(* that list themselves or each other included: the recursion depth of     *)
(* fetch_sitemap_urls is bounded - no call is ever nested deeper than the  *)
(* site has sitemaps.                                                      *)
(***************************************************************************)
C23_DepthBounded == Len(stack) <= Cardinality(DOMAIN args.web)

(***************************************************************************)
(* C24: resolution tries every candidate of the merged list - the sitemaps *)
(* robots.txt lists, then the default file names - in order until one      *)
(* yields URLs; a candidate whose fetch fails or does not parse yields     *)
(* nothing and the next one is tried, so the defaults are still tried when *)
(* every sitemap listed in robots.txt yields nothing.                      *)
(***************************************************************************)
C24_Merged == fromkeys(args.listed \o try_default_sitemaps(args.base_url))

\* the candidates of the merged list that yield a URL
C24_Yielding ==
    {i \in 1..Len(C24_Merged) : C24_Merged[i] \in DOMAIN args.site /\ args.site[C24_Merged[i]] > 0}

C24_TriesEveryCandidate ==
    C20_Returned =>
        IF C24_Yielding = {} THEN ret[1].value.used_sitemap = None
        ELSE \E i \in C24_Yielding :
                /\ \A j \in C24_Yielding : i <= j
                /\ ret[1].value.used_sitemap = C24_Merged[i]

(***************************************************************************)
(* C25: when no sitemap candidate yields any URL, discovery falls back to  *)
(* the same-domain links of the homepage (one hop) as the discovered URL   *)
(* set, and the sample is the homepage URL alone only if that harvest also *)
(* yields nothing.                                                         *)
(***************************************************************************)
C25_NoSitemapYields == C21_Returned /\ \A sm \in DOMAIN args.site : args.site[sm] = 0

C25_FallsBackToHomepageLinks ==
    C25_NoSitemapYields /\ args.homepage_links # <<>> =>
        /\ ret[1].value.urls_discovered = Cardinality(Range(args.homepage_links))
        /\ ret[1].value.sample_urls # <<args.base_url>>
        /\ Range(ret[1].value.sample_urls) \subseteq {args.base_url} \cup Range(args.homepage_links)

(***************************************************************************)
(* C26: for every link that check_links_for_broken checks, a full GET is   *)
(* issued whenever the HEAD attempt yields an error status (>= 400) or no  *)
(* usable status at all, and the link is recorded as broken iff the final  *)
(* determined status is >= 400 or no status could be obtained; otherwise   *)
(* it is counted as OK.                                                    *)
(***************************************************************************)
C26_GetIssued(k) == [method |-> "GET", url |-> stack[1].links[k]] \in Range(stack[1].requests)

\* the HEAD attempt gave an error status or no usable status at all
C26_HeadUnusable(k) ==
    \/ args.web[stack[1].links[k]].head = <<>>
    \/ args.web[stack[1].links[k]].head[1] >= 400
    \/ args.web[stack[1].links[k]].head[1] = 0

\* what the last request sent for the link gave
C26_Final(k) ==
    IF C26_GetIssued(k) THEN args.web[stack[1].links[k]].get ELSE args.web[stack[1].links[k]].head

C26_Recorded(k) == \E i \in 1..Len(stack[1].broken) : stack[1].broken[i].url = stack[1].links[k]

C26_EscalatesAndRecords ==
    pc = "checking" =>
        /\ \A k \in 1..stack[1].checked :
               /\ C26_GetIssued(k) <=> C26_HeadUnusable(k)
               /\ C26_Recorded(k) <=> (C26_Final(k) = <<>> \/ C26_Final(k)[1] >= 400)
        /\ stack[1].ok = stack[1].checked - Len(stack[1].broken)

(***************************************************************************)
(* C27: check_links_for_broken checks a prefix of the link pool in order,  *)
(* each link at most once, and stops as soon as 25 broken links are        *)
(* collected: in every state the broken list has at most 25 records, no    *)
(* request is issued after the cap is reached, ok_count plus the number of *)
(* broken records equals the number of links checked, and the pool handed  *)
(* to it holds at most 180 distinct links.                                 *)
(***************************************************************************)
C27_Heads == {i \in 1..Len(stack[1].requests) : stack[1].requests[i].method = "HEAD"}

C27_ChecksPrefixUnderCap ==
    pc = "checking" =>
        /\ Len(stack[1].links) <= 180
        /\ Cardinality(Range(stack[1].links)) = Len(stack[1].links)
        /\ stack[1].checked <= Len(stack[1].links)
        /\ Cardinality(C27_Heads) = stack[1].checked
        /\ Len(stack[1].requests) <= 2 * stack[1].checked
        /\ stack[1].requests # <<>> =>
               stack[1].requests[Len(stack[1].requests)].url = stack[1].links[stack[1].checked]
        /\ Len(stack[1].broken) <= 25
        /\ stack[1].ok + Len(stack[1].broken) = stack[1].checked
        /\ Len(stack[1].broken) = 25 =>
               /\ stack[1].over
               /\ stack[1].broken[25].url = stack[1].links[stack[1].checked]
        /\ ~stack[1].over => stack[1].checked < Len(stack[1].links)

\* the cap stops the loop inside a capped pool
C27_Witness ==
    /\ pc = "checking"
    /\ Len(stack[1].links) = 180
    /\ Len(stack[1].broken) = 25
    /\ stack[1].ok = 25
    /\ stack[1].checked = 50

(***************************************************************************)
(* C28: a page record flagged with an error (request_failed or non_html)   *)
(* contributes to no content-quality finding: for every content rule (all  *)
(* rules except Broken Internal Links and Pages Returning Error Status),   *)
(* removing the error-flagged pages from the input leaves the rule's       *)
(* result unchanged.                                                       *)
(***************************************************************************)
C28_ContentRules ==
    Range(RuleNames) \ {"_detect_broken_links", "_detect_pages_with_errors"}

C28_Flagged(p) == p.error \in {"request_failed", "non_html"}

C28_Unflagged == SelectSeq(pages, LAMBDA p : ~C28_Flagged(p))

C28_ErrorPagesContributeNothing ==
    ret # <<>> /\ ret[1].rule \in C28_ContentRules =>
        ret[1].value = call_rule(ret[1].rule, C28_Unflagged, broken_link_examples)

\* a rule reports a page and says nothing of the failed request next to it,
\* whose record has no H1 count, no title and no meta description
C28_Witness ==
    /\ ret # <<>> /\ ret[1].rule = "_detect_missing_h1"
    /\ pages = <<FailedPage, BarePage("https://a.com/p"), NonHtmlPage>>
    /\ ret[1].value # <<>>
    /\ ret[1].value[1].urls = <<"https://a.com/p">>

(***************************************************************************)
(* C29: every Problem titled 'Duplicate Title Tags' or 'Duplicate Meta     *)
(* Descriptions' returned by detect_problems lists at least two distinct   *)
(* URLs, for every page list, pages whose final URLs coincide or differ    *)
(* only by www included.                                                   *)
(***************************************************************************)
C29_Returned == critical_errors \o warnings \o quick_wins

C29_Titles == {"Duplicate Title Tags", "Duplicate Meta Descriptions"}

C29_DuplicatesListTwoUrls ==
    pc = "detected" =>
        \A k \in 1..Len(C29_Returned) :
            C29_Returned[k].title \in C29_Titles
                => Cardinality(Range(C29_Returned[k].urls)) >= 2

\* the field a Problem is about, as the records hold it, without the
\* whitespace around it
C29_Field(title) ==
    [i \in 1..Len(pages) |->
        C5_WithoutSpaceAround(
            IF title = "Duplicate Title Tags"
            THEN (IF pages[i].title = None THEN "" ELSE pages[i].title)
            ELSE (IF pages[i].meta = None THEN "" ELSE pages[i].meta))]

\* the normalized URLs of the page records i of a set
C29_UrlsOf(sharing) ==
    {C5_Normalized(Or(pages[i].final_url, pages[i].url)) : i \in sharing} \ {""}

\* What the rules do guarantee: every such Problem stems from at least two
\* page records without error flag that share a non-empty title (meta
\* description) and lists, once each, the normalized URLs of those records,
\* which may be a single URL.
C29_DuplicatesListSharingPages ==
    pc = "detected" =>
        \A k \in 1..Len(C29_Returned) :
            C29_Returned[k].title \in C29_Titles =>
                /\ Cardinality(C9_Sharing(C29_Field(C29_Returned[k].title))) >= 2
                /\ Range(C29_Returned[k].urls)
                       = C29_UrlsOf(C9_Sharing(C29_Field(C29_Returned[k].title)))
                /\ Cardinality(Range(C29_Returned[k].urls)) = Len(C29_Returned[k].urls)
                /\ Len(C29_Returned[k].urls) >= 1

\* two records of one page, under its www and its non-www address
C29_OnePageTwice ==
    /\ pc = "detected"
    /\ pages = <<LoudPage("https://a.com/p"), LoudPage("https://www.a.com/p/")>>
    /\ \E k \in 1..Len(critical_errors) :
           /\ critical_errors[k].title = "Duplicate Title Tags"
           /\ critical_errors[k].urls = <<"https://a.com/p">>

(***************************************************************************)
(* C30: for every Problem returned by detect_problems, the page or link    *)
(* count stated at the start of its description equals the number of URLs  *)
(* in its urls list (for Missing Structured Data: whenever at most 40      *)
(* pages lack JSON-LD).                                                    *)
(***************************************************************************)
C30_Digits == <<"0", "1", "2", "3", "4", "5", "6", "7", "8", "9">>

C30_IsDigit(c) == \E d \in 1..10 : C30_Digits[d] = c

C30_DigitValue(c) == (CHOOSE d \in 1..10 : C30_Digits[d] = c) - 1

\* the number written at the start of s, after the digits read so far
RECURSIVE C30_CountFrom(_, _)
C30_CountFrom(s, read) ==
    IF s # "" /\ C30_IsDigit(SubSeq(s, 1, 1))
    THEN C30_CountFrom(SubSeq(s, 2, Len(s)), 10 * read + C30_DigitValue(SubSeq(s, 1, 1)))
    ELSE read

C30_StatedCount(description) == C30_CountFrom(description, 0)

C30_DescriptionCountsUrls ==
    pc = "detected" =>
        \A k \in 1..Len(C29_Returned) :
            /\ C30_IsDigit(SubSeq(C29_Returned[k].description, 1, 1))
            /\ C30_StatedCount(C29_Returned[k].description) = Len(C29_Returned[k].urls)

====
